---- MODULE Spec2Model ----
(***************************************************************************)
(* pgbackup: tiered, retention-bounded PostgreSQL backups whose only       *)
(* metadata is the file name  host.port.database.schema.date.tier.suffix.  *)
(* The model covers pgbackup/backup.py (labels, file names, promotion,     *)
(* expiration, Backup.backup) and pgbackup/main.py (do_backups,            *)
(* main_backup), over a directory with hard-link semantics.                *)
(***************************************************************************)
EXTENDS Integers, Sequences, FiniteSets, TLC

(***************************************************************************)
(* Bounds of the model.                                                    *)
(***************************************************************************)
\* "today" is starting_date + k days for k in FirstDay .. FirstDay+NumDays-1.
\* With 54 and 4 the window is Sat 2016-02-27 .. Tue 2016-03-01: two ISO
\* weeks (8: 27,28; 9: 29,01) and two months (Feb: 27,28,29; Mar: 01).
FirstDay == 54
NumDays == 4
\* keep counts configured in the [backup] section range over "0" .. MaxKeep
MaxKeep == 2

(***************************************************************************)
(* Calendar: datetime.date as used by the program.  A date object is a     *)
(* triple <<year, month, day>>.                                            *)
(***************************************************************************)
is_leap(y) == (y % 4 = 0) /\ ((y % 100 # 0) \/ (y % 400 = 0))

days_in_month(y, m) ==
    IF m = 2 THEN (IF is_leap(y) THEN 29 ELSE 28)
    ELSE IF m \in {4, 6, 9, 11} THEN 30 ELSE 31

RECURSIVE days_before_month(_, _)
days_before_month(y, m) ==
    IF m = 1 THEN 0 ELSE days_before_month(y, m - 1) + days_in_month(y, m - 1)

days_before_year(y) ==
    (y - 1) * 365 + ((y - 1) \div 4) - ((y - 1) \div 100) + ((y - 1) \div 400)

\* date.toordinal(): 0001-01-01 is day 1
ymd2ord(dt) == days_before_year(dt[1]) + days_before_month(dt[1], dt[2]) + dt[3]

\* date.fromordinal(), for the years the model visits
ord2ymd(n) ==
    LET y == CHOOSE yy \in 2015..2018 :
                 days_before_year(yy) < n /\ n <= days_before_year(yy + 1)
        r == n - days_before_year(y)
        m == CHOOSE mm \in 1..12 :
                 days_before_month(y, mm) < r
                 /\ r <= days_before_month(y, mm) + days_in_month(y, mm)
    IN  <<y, m, r - days_before_month(y, m)>>

isoweek1monday(year) ==
    LET firstday == ymd2ord(<<year, 1, 1>>)
        firstweekday == (firstday + 6) % 7
        week1monday == firstday - firstweekday
    IN  IF firstweekday > 3 THEN week1monday + 7 ELSE week1monday

\* date.isocalendar()[:2] = (ISO year, ISO week)
isocalendar(dt) ==
    LET year == dt[1]
        tdy == ymd2ord(dt)
        week == (tdy - isoweek1monday(year)) \div 7
    IN  IF tdy < isoweek1monday(year)
        THEN <<year - 1, ((tdy - isoweek1monday(year - 1)) \div 7) + 1>>
        ELSE IF week >= 52 /\ tdy >= isoweek1monday(year + 1)
        THEN <<year + 1, 1>>
        ELSE <<year, week + 1>>

\* the date the tests start from: datetime.date(2016, 1, 4), a Monday
starting_date == <<2016, 1, 4>>

\* starting_date + datetime.timedelta(days = k)
plus_days(dt, k) == ord2ymd(ymd2ord(dt) + k)

\* the dates a call or a run may be given as "today"
Dates == { plus_days(starting_date, k) : k \in FirstDay .. (FirstDay + NumDays - 1) }

(***************************************************************************)
(* Strings.  A date stamp is a sequence of one-character strings; file     *)
(* names are compared character by character, as sorted() does.            *)
(***************************************************************************)
Digits == <<"0", "1", "2", "3", "4", "5", "6", "7", "8", "9">>

digit(k) == Digits[k + 1]

is_digit(c) == \E k \in 0..9 : Digits[k + 1] = c

value(c) == CHOOSE k \in 0..9 : Digits[k + 1] = c

\* code points of the characters a date field can hold
ord(c) == IF c = " " THEN 32 ELSE IF c = "*" THEN 42 ELSE IF c = "-" THEN 45 ELSE 48 + value(c)

\* a stamp that would not pad the month and the day with zeros
strftime_unpadded(dt) ==
    << digit(dt[1] \div 1000), digit((dt[1] \div 100) % 10),
       digit((dt[1] \div 10) % 10), digit(dt[1] % 10), "-" >>
      \o (IF dt[2] >= 10 THEN <<digit(dt[2] \div 10)>> ELSE <<>>) \o <<digit(dt[2] % 10), "-">>
      \o (IF dt[3] >= 10 THEN <<digit(dt[3] \div 10)>> ELSE <<>>) \o <<digit(dt[3] % 10)>>

\* today.strftime('%Y-%m-%d')
strftime(dt) ==
    << digit(dt[1] \div 1000), digit((dt[1] \div 100) % 10),
       digit((dt[1] \div 10) % 10), digit(dt[1] % 10), "-",
       digit(dt[2] \div 10), digit(dt[2] % 10), "-",
       digit(dt[3] \div 10), digit(dt[3] % 10) >>

\* str < str, lexicographic on code points
RECURSIVE str_less(_, _)
str_less(s, t) ==
    IF t = <<>> THEN FALSE
    ELSE IF s = <<>> THEN TRUE
    ELSE IF ord(Head(s)) # ord(Head(t)) THEN ord(Head(s)) < ord(Head(t))
    ELSE str_less(Tail(s), Tail(t))

\* the number a digit of the day field stands for; %d takes a blank for a
\* leading zero
day_value(c) == IF c = " " THEN 0 ELSE value(c)

\* where the month field ends: %m takes one or two digits
month_end(s) == IF s[7] = "-" THEN 7 ELSE 8

\* datetime.datetime.strptime(s, '%Y-%m-%d') raises ValueError: the string
\* is not four digits of year, one or two of month and one or two of day
\* with '-' between them, or the three numbers are not a date
strptime_raises(s) ==
    ~ \E k \in {7, 8} :
         /\ Len(s) \in {k + 1, k + 2}
         /\ \A i \in 1..4 : is_digit(s[i])
         /\ s[5] = "-" /\ s[k] = "-"
         /\ \A i \in 6..(k - 1) : is_digit(s[i])
         /\ is_digit(s[Len(s)])
         /\ Len(s) = k + 2 => (is_digit(s[k + 1]) \/ s[k + 1] = " ")
         /\ LET y == 1000 * value(s[1]) + 100 * value(s[2]) + 10 * value(s[3]) + value(s[4])
                m == IF k = 7 THEN value(s[6]) ELSE 10 * value(s[6]) + value(s[7])
                d == IF Len(s) = k + 1 THEN value(s[k + 1])
                     ELSE 10 * day_value(s[k + 1]) + value(s[k + 2])
            IN  y >= 1 /\ m \in 1..12 /\ d >= 1 /\ d <= days_in_month(y, m)

\* datetime.datetime.strptime(s, '%Y-%m-%d').date() of a string it accepts
strptime(s) ==
    LET k == month_end(s)
    IN  << 1000 * value(s[1]) + 100 * value(s[2]) + 10 * value(s[3]) + value(s[4]),
           IF k = 7 THEN value(s[6]) ELSE 10 * value(s[6]) + value(s[7]),
           IF Len(s) = k + 1 THEN value(s[k + 1])
           ELSE 10 * day_value(s[k + 1]) + value(s[k + 2]) >>

(***************************************************************************)
(* Text.  A Python string is modelled by its split on the field separator  *)
(* '.': a sequence of dot-free pieces, so '.'.join() is concatenation and  *)
(* "'.' in s" is Len(s) > 1.  None is the empty sequence, the empty string *)
(* is the one empty piece.  The date stamp is one piece: its characters.   *)
(***************************************************************************)
None == <<>>

falsy(s) == s = None \/ s = <<"">>

contains_dot(s) == Len(s) > 1

\* socket.gethostname() of the machine that runs the backups
gethostname == <<"dbhost", "example", "org">>

\* a label that would keep the qualified name
hostname_label_qualified(hostname) ==
    LET h1 == IF falsy(hostname) THEN <<"localhost">> ELSE hostname
    IN  IF h1 = <<"127", "0", "0", "1">> \/ h1 = <<"localhost">>
        THEN (IF falsy(gethostname) THEN <<"localhost">> ELSE gethostname)
        ELSE h1

hostname_label(hostname) ==
    LET h1 == IF falsy(hostname) THEN <<"localhost">> ELSE hostname
        h2 == IF h1 = <<"127", "0", "0", "1">> \/ h1 = <<"localhost">>
              THEN (IF falsy(gethostname) THEN <<"localhost">> ELSE gethostname)
              ELSE h1
    IN  IF contains_dot(h2) THEN <<Head(h2)>> ELSE h2

port_label(port) == IF falsy(port) THEN <<"5432">> ELSE port

database_label(database) == IF falsy(database) THEN <<"database_na">> ELSE database

(***************************************************************************)
(* Schema selections.  schema_spec is None, one schema name, a collection  *)
(* of names, or a SchemaCriteria with include / exclude patterns.  A       *)
(* pattern is modelled by the set of schema names re.search() accepts;     *)
(* an unset option is the empty string.                                    *)
(***************************************************************************)
NoPattern == [set |-> FALSE, matches |-> {}]

Pattern(S) == [set |-> TRUE, matches |-> S]

NoneSpec == [kind |-> "None", names |-> <<>>, include |-> NoPattern, exclude |-> NoPattern]

StrSpec(name) == [kind |-> "str", names |-> <<name>>, include |-> NoPattern, exclude |-> NoPattern]

ListSpec(names) == [kind |-> "list", names |-> names, include |-> NoPattern, exclude |-> NoPattern]

SchemaCriteria(include, exclude) ==
    [kind |-> "SchemaCriteria", names |-> <<>>, include |-> include, exclude |-> exclude]

\* get_schemas(): the schemas of the one database of the server, in psql
\* order; a schema may have any name, the words of schema_label included
get_schemas == << <<"public">>, <<"s1">>, <<"no_schemas">> >>

RECURSIVE filter_seq(_, _, _)
filter_seq(collection, include, exclude) ==
    IF collection = <<>> THEN <<>>
    ELSE LET element == Head(collection)
             rest == filter_seq(Tail(collection), include, exclude)
         IN  IF include.set /\ element \notin include.matches THEN rest
             ELSE IF exclude.set /\ element \in exclude.matches THEN rest
             ELSE <<element>> \o rest

\* filter_collection() returns a set; its iteration order is taken as the
\* order of the input
filter_collection(collection, include, exclude) == filter_seq(collection, include, exclude)

matching_schemas(schema_criteria) ==
    filter_collection(get_schemas, schema_criteria.include, schema_criteria.exclude)

selective(schema_spec) ==
    schema_spec.kind = "SchemaCriteria" /\ (schema_spec.include.set \/ schema_spec.exclude.set)

\* schema_label() raises ValueError('Programmer brain overflow')
schema_label_raises(schema_spec, empty) ==
    ~empty /\ schema_spec.kind = "list" /\ Len(schema_spec.names) = 0

\* a label that would name a collection of several schemas by its first
schema_label_first(schema_spec, empty) ==
    IF empty THEN <<"no_schemas">>
    ELSE IF schema_spec.kind = "None" THEN <<"no_schemas">>
    ELSE IF selective(schema_spec) THEN <<"selected_schemas">>
    ELSE IF schema_spec.kind = "SchemaCriteria" THEN <<"all_schemas">>
    ELSE schema_spec.names[1]

schema_label(schema_spec, empty) ==
    IF empty THEN <<"no_schemas">>
    ELSE IF schema_spec.kind = "None" THEN <<"no_schemas">>
    ELSE IF selective(schema_spec) THEN <<"selected_schemas">>
    ELSE IF schema_spec.kind = "SchemaCriteria" THEN <<"all_schemas">>
    ELSE IF schema_spec.kind = "str" THEN schema_spec.names[1]
    ELSE IF Len(schema_spec.names) = 1 THEN schema_spec.names[1]
    ELSE <<"selected_schemas">>

(***************************************************************************)
(* class Backup                                                            *)
(***************************************************************************)
NUM_FILENAME_PARTS == 7

GLOBALS_SUFFIX == "sql"

REGULAR_SUFFIX == "pg_dump_Fc"

BACKUP_TYPES == {"globals", "daily", "weekly", "monthly"}

validate_backup_type(backup_type) == backup_type \in BACKUP_TYPES

\* connection settings of the [backup] section: hostname and port unset
conn_info == [hostname |-> <<"">>, port |-> <<"">>]

schema_names_of(schema_spec) ==
    IF schema_spec.kind = "SchemaCriteria" THEN matching_schemas(schema_spec)
    ELSE schema_spec.names

\* backup_dir of the [backup] section
backup_dir == <<"backups">>

\* required arguments that would not include the database
required_missing_lenient(dir, backup_type, database) ==
    IF backup_type = "globals" THEN falsy(dir)
    ELSE falsy(dir) \/ falsy(<<backup_type>>)

\* Backup.__init__: 'Required argument(s)' is raised
required_missing(dir, backup_type, database) ==
    IF backup_type = "globals" THEN falsy(dir)
    ELSE falsy(dir) \/ falsy(<<backup_type>>) \/ falsy(database)

\* a check of the labels that would leave the database label out
init_raises_unchecked(conn, backup_type, database, schema_spec, empty) ==
    \/ required_missing(backup_dir, backup_type, database)
    \/ schema_label_raises(schema_spec, empty)
    \/ contains_dot(port_label(conn.port))
    \/ \E i \in 1..Len(schema_names_of(schema_spec)) :
           contains_dot(schema_names_of(schema_spec)[i])
    \/ ~validate_backup_type(backup_type)

\* Backup.__init__ for a prospective backup raises ValueError
init_raises_with(conn, backup_type, database, schema_spec, empty) ==
    \/ required_missing(backup_dir, backup_type, database)
    \/ schema_label_raises(schema_spec, empty)
    \/ contains_dot(port_label(conn.port))
    \/ contains_dot(database_label(database))
    \/ \E i \in 1..Len(schema_names_of(schema_spec)) :
           contains_dot(schema_names_of(schema_spec)[i])
    \/ ~validate_backup_type(backup_type)

\* the same under the connection settings of the configuration
init_raises(backup_type, database, schema_spec, empty) ==
    init_raises_with(conn_info, backup_type, database, schema_spec, empty)

\* Backup.__init__ for a prospective backup (backup_dir is the one directory
\* of the model)
Backup_with(conn, backup_type, database, schema_spec, today, empty) ==
    [ hostname_label |-> hostname_label(conn.hostname),
      port_label     |-> port_label(conn.port),
      database_label |-> database_label(database),
      schema_label   |-> schema_label(schema_spec, empty),
      date           |-> <<strftime(today)>>,
      backup_type    |-> backup_type,
      schema_spec    |-> schema_spec,
      schema_names   |-> schema_names_of(schema_spec),
      empty          |-> empty ]

\* the same under the connection settings of the configuration
Backup(backup_type, database, schema_spec, today, empty) ==
    Backup_with(conn_info, backup_type, database, schema_spec, today, empty)

suffix_of(backup_type) ==
    IF backup_type = "globals" THEN GLOBALS_SUFFIX ELSE REGULAR_SUFFIX

\* Backup.filename: the base name, as its pieces
base_filename(b) ==
    b.hostname_label \o b.port_label \o b.database_label \o b.schema_label
      \o b.date \o <<b.backup_type>> \o <<suffix_of(b.backup_type)>>

\* Backup.filename raises RuntimeError when the dots do not count up
filename_raises(b) == Len(base_filename(b)) - 1 # NUM_FILENAME_PARTS - 1

filename(b) == base_filename(b)

\* Backup._parse_filename raises ValueError
parse_raises(fname) ==
    \/ Len(fname) # NUM_FILENAME_PARTS
    \/ strptime_raises(fname[5])
    \/ ~validate_backup_type(fname[6])
    \/ fname[7] \notin {GLOBALS_SUFFIX, REGULAR_SUFFIX}

\* Backup(filename = fname): the object describing an existing file
parse_filename(fname) ==
    [ hostname_label |-> <<fname[1]>>,
      port_label     |-> <<fname[2]>>,
      database_label |-> <<fname[3]>>,
      schema_label   |-> <<fname[4]>>,
      date           |-> <<fname[5]>>,
      backup_type    |-> fname[6] ]

\* Backup.filename_with_date_masked: the glob pattern of the siblings
filename_with_date_masked(b, override_backup_type) ==
    LET mask_obj == parse_filename(filename(b))
        typed == IF override_backup_type # ""
                 THEN [mask_obj EXCEPT !.backup_type = override_backup_type]
                 ELSE mask_obj
    IN  filename([typed EXCEPT !.date = << <<"*">> >>])

date_obj(b) == strptime(b.date[1])

week_number(b) == isocalendar(date_obj(b))

month_number(b) == <<date_obj(b)[1], date_obj(b)[2]>>

(***************************************************************************)
(* The backup directory.  The disk is a set of inodes, each with the set   *)
(* of directory entries (links) that refer to it and its content; the      *)
(* content of a dump is the request that wrote it.  An inode lives as long *)
(* as it has a link.                                                       *)
(***************************************************************************)
listdir(disk) == UNION { i.links : i \in disk }

inode_of(disk, fname) == CHOOSE i \in disk : fname \in i.links

exists(disk, fname) == \E i \in disk : fname \in i.links

\* what a dump tool writes: who wrote it, to which path, for which schemas
Content(tool, fname, schemas, empty) ==
    [tool |-> tool, out |-> fname, schemas |-> schemas, empty |-> empty]

\* a state of the machine while one operation runs: the disk, the calls
\* issued so far, and the exception raised ("" when none)
Machine(disk, log) == [disk |-> disk, log |-> log, err |-> ""]

raise(st, exception) ==
    [st EXCEPT !.err = exception, !.log = Append(@, <<"raise", exception>>)]

\* open(fname, 'w') and write: an existing inode is truncated and rewritten
\* in place, so every link to it sees the new content
write_file(disk, fname, data) ==
    IF exists(disk, fname)
    THEN LET i == inode_of(disk, fname)
         IN  (disk \ {i}) \cup {[i EXCEPT !.data = data]}
    ELSE disk \cup {[links |-> {fname}, data |-> data]}

\* os.link(src, dst)
os_link(st, src, dst) ==
    IF ~exists(st.disk, src) THEN raise(st, "FileNotFoundError")
    ELSE IF exists(st.disk, dst) THEN raise(st, "FileExistsError")
    ELSE LET i == inode_of(st.disk, src)
         IN  [st EXCEPT !.disk = (@ \ {i}) \cup {[i EXCEPT !.links = @ \cup {dst}]},
                        !.log = Append(@, <<"link", src, dst>>)]

\* an unlink that would free the file's content along with the entry
os_unlink_content(st, fname) ==
    IF ~exists(st.disk, fname) THEN raise(st, "FileNotFoundError")
    ELSE [st EXCEPT !.disk = @ \ {inode_of(st.disk, fname)},
                    !.log = Append(@, <<"unlink", fname>>)]

\* os.unlink(fname)
os_unlink(st, fname) ==
    IF ~exists(st.disk, fname) THEN raise(st, "FileNotFoundError")
    ELSE LET i == inode_of(st.disk, fname)
             rest == i.links \ {fname}
         IN  [st EXCEPT !.disk = IF rest = {} THEN @ \ {i}
                                 ELSE (@ \ {i}) \cup {[i EXCEPT !.links = rest]},
                        !.log = Append(@, <<"unlink", fname>>)]

\* fnmatch of one piece against one piece of the pattern
glob_piece(piece, pat) == pat = <<"*">> \/ piece = pat

\* glob.glob(pattern).  Every pattern the program builds has seven pieces
\* with the wildcard as the date piece; the other pieces are literal.
glob(disk, pattern) ==
    { f \in listdir(disk) :
        /\ Len(f) = Len(pattern)
        /\ \A k \in (1..Len(pattern)) \ {5} : f[k] = pattern[k]
        /\ glob_piece(f[5], pattern[5]) }

\* the reverse order
file_greater(f, g) == str_less(g[5], f[5])

\* fname1 < fname2 as strings.  sorted() is only applied to the result of one
\* glob, whose names differ in the date piece alone.
file_less(f, g) == str_less(f[5], g[5])

RECURSIVE sort_files(_)
sort_files(file_collection) ==
    IF file_collection = {} THEN <<>>
    ELSE LET first == CHOOSE f \in file_collection :
                          \A g \in file_collection \ {f} : file_less(f, g)
         IN  <<first>> \o sort_files(file_collection \ {first})

sorted_files(disk, pattern) == sort_files(glob(disk, pattern))

(***************************************************************************)
(* Keep counts.  A value of the [backup] section is a str; an option that  *)
(* is not set takes safe_get's default, the int 0.                         *)
(***************************************************************************)
Unset == [py |-> "int", n |-> 0]

Str(k) == [py |-> "str", n |-> k]

\* bool(value): a non-empty str is true whatever it spells
truthy(v) == IF v.py = "str" THEN TRUE ELSE v.n # 0

int(v) == v.n

KeepValues == {Unset} \cup { Str(k) : k \in 0..MaxKeep }

Retention == [days_to_keep : KeepValues, weeks_to_keep : KeepValues,
              months_to_keep : KeepValues]

(***************************************************************************)
(* pg_utils: the dump producers.  outcome is what the external tool does:  *)
(* "ok", "fail" (non-zero exit, nothing written) or "partial" (non-zero    *)
(* exit after the output file was opened and written in part).             *)
(***************************************************************************)
Outcomes == {"ok", "fail", "partial"}

\* a dump that would refuse to write over a file that exists
run_dump_exclusive(st, tool, fname, schemas, empty, outcome) ==
    LET called == [st EXCEPT !.log = Append(@, <<tool, fname, schemas, empty>>)]
    IN  IF outcome = "ok" /\ ~exists(st.disk, fname)
        THEN [called EXCEPT !.disk = write_file(@, fname, Content(tool, fname, schemas, empty))]
        ELSE raise(called, "CalledProcessError")

run_dump(st, tool, fname, schemas, empty, outcome) ==
    LET called == [st EXCEPT !.log = Append(@, <<tool, fname, schemas, empty>>)]
    IN  IF outcome = "ok"
        THEN [called EXCEPT !.disk = write_file(@, fname, Content(tool, fname, schemas, empty))]
        ELSE IF outcome = "partial"
        THEN raise([called EXCEPT !.disk = write_file(@, fname, Content(tool, fname, schemas, empty))],
                   "CalledProcessError")
        ELSE raise(called, "CalledProcessError")

pg_dump(st, database, fname, schemas, empty, outcome) ==
    IF empty /\ schemas # <<>> THEN raise(st, "ValueError")
    ELSE run_dump(st, "pg_dump", fname, schemas, empty, outcome)

pg_dumpall_globals(st, fname, outcome) ==
    run_dump(st, "pg_dumpall", fname, <<>>, FALSE, outcome)

(***************************************************************************)
(* Backup.do_promotion, Backup.expire, Backup.backup                       *)
(***************************************************************************)
\* files[0]: the oldest of a sorted list
first(files) == files[1]

\* files[-1] of a sorted list
last(files) == files[Len(files)]

\* the period a tier counts in: the ISO week, or the month
period_number(backup_type, x) ==
    IF backup_type = "weekly" THEN week_number(x) ELSE month_number(x)

\* a promotion that would be made on every request
promotion_always_needed(st, b) == TRUE

\* a promotion that would be made for the first artifact of the tier only
promotion_needed_once(st, b) ==
    sorted_files(st.disk, filename_with_date_masked(b, "")) = <<>>

\* a decision that would look at the oldest sibling instead of the last
promotion_needed_oldest(st, b) ==
    LET backups == sorted_files(st.disk, filename_with_date_masked(b, ""))
    IN  \/ backups = <<>>
        \/ period_number(b.backup_type, parse_filename(first(backups)))
             # period_number(b.backup_type, b)

\* do_promotion: no sibling yet, or the last sibling is of another period
promotion_needed(st, b) ==
    LET backups == sorted_files(st.disk, filename_with_date_masked(b, ""))
    IN  \/ backups = <<>>
        \/ period_number(b.backup_type, parse_filename(last(backups)))
             # period_number(b.backup_type, b)

\* a missing source that would be passed over in silence
missing_source_ignored(st) == st

\* do_promotion: raise RuntimeError('... no backups found.')
missing_source(st) == raise(st, "RuntimeError")

\* a promotion that would name the link by the date of its source
promote_dated_as_source(st, b, finer) ==
    LET finer_backups == sorted_files(st.disk, filename_with_date_masked(b, finer))
    IN  IF ~promotion_needed(st, b) THEN st
        ELSE IF finer_backups = <<>> THEN missing_source(st)
        ELSE os_link(st, last(finer_backups),
                     filename([b EXCEPT !.date = <<last(finer_backups)[5]>>]))

\* a promotion that would link the oldest backup of the finer tier
promote_oldest(st, b, finer) ==
    LET finer_backups == sorted_files(st.disk, filename_with_date_masked(b, finer))
    IN  IF ~promotion_needed(st, b) THEN st
        ELSE IF finer_backups = <<>> THEN missing_source(st)
        ELSE os_link(st, first(finer_backups), filename(b))

\* one branch of do_promotion: when a promotion is needed, the last backup
\* of the finer tier is hard-linked
promote(st, b, finer) ==
    LET finer_backups == sorted_files(st.disk, filename_with_date_masked(b, finer))
    IN  IF ~promotion_needed(st, b) THEN st
        ELSE IF finer_backups = <<>> THEN missing_source(st)
        ELSE os_link(st, last(finer_backups), filename(b))

\* a monthly promotion that would take the daily backups as its source
do_promotion_from_daily(st, b) ==
    IF b.backup_type = "weekly" THEN promote(st, b, "daily")
    ELSE IF b.backup_type = "monthly" THEN promote(st, b, "daily")
    ELSE st

do_promotion(st, b) ==
    IF b.backup_type = "weekly" THEN promote(st, b, "daily")
    ELSE IF b.backup_type = "monthly" THEN promote(st, b, "weekly")
    ELSE st

has_promotable_more_granular_backups(b, days_to_keep, weeks_to_keep) ==
    IF b.backup_type = "weekly" THEN truthy(days_to_keep)
    ELSE IF b.backup_type = "monthly" THEN truthy(weeks_to_keep)
    ELSE FALSE

\* files[num_to_keep:]: the slice that would spare the oldest instead
all_but_first(files, num_to_keep) ==
    IF Len(files) > num_to_keep THEN SubSeq(files, num_to_keep + 1, Len(files))
    ELSE <<>>

\* files[:len(files) - num_to_keep]: a slice that would select every file for
\* a count of 0
all_but_last_counted(files, num_to_keep) ==
    IF Len(files) > num_to_keep THEN SubSeq(files, 1, Len(files) - num_to_keep)
    ELSE <<>>

\* files[:-num_to_keep]; -0 is 0, so a count of 0 selects nothing
all_but_last(files, num_to_keep) ==
    IF num_to_keep = 0 THEN <<>>
    ELSE IF Len(files) > num_to_keep THEN SubSeq(files, 1, Len(files) - num_to_keep)
    ELSE <<>>

\* a sweep that would remove every link to a file it deletes
RECURSIVE unlink_all_links(_, _)
unlink_all_links(st, files) ==
    IF files = <<>> \/ st.err # "" THEN st
    ELSE unlink_all_links(os_unlink_content(st, Head(files)), Tail(files))

RECURSIVE unlink_all(_, _)
unlink_all(st, files) ==
    IF files = <<>> \/ st.err # "" THEN st
    ELSE unlink_all(os_unlink(st, Head(files)), Tail(files))

\* keep counts that would be one too many
num_to_keep_and_one(b, keep) ==
    IF b.backup_type = "globals" THEN 1
    ELSE IF b.backup_type = "daily" THEN int(keep.days_to_keep) + 1
    ELSE IF b.backup_type = "weekly" THEN int(keep.weeks_to_keep) + 1
    ELSE int(keep.months_to_keep) + 1

num_to_keep_of(b, keep) ==
    IF b.backup_type = "globals" THEN 1
    ELSE IF b.backup_type = "daily" THEN int(keep.days_to_keep)
    ELSE IF b.backup_type = "weekly" THEN int(keep.weeks_to_keep)
    ELSE int(keep.months_to_keep)

expire(st, b, keep) ==
    LET mask_obj == Backup(b.backup_type, b.database_label, b.schema_spec,
                           date_obj(b), b.empty)
        pattern == filename_with_date_masked(mask_obj, "")
        num_to_keep == num_to_keep_of(b, keep)
        files == sorted_files(st.disk, pattern)
        swept == [st EXCEPT !.log = Append(@, <<"expire", num_to_keep, files>>)]
    IN  unlink_all(swept, all_but_last(files, num_to_keep))

\* the schema list Backup.backup hands to pg_dump
schema_list_of(b) ==
    LET unselective == b.schema_spec.kind = "SchemaCriteria" /\ ~selective(b.schema_spec)
        no_spec == \/ b.schema_spec.kind = "None"
                   \/ b.schema_spec.kind = "str" /\ falsy(b.schema_spec.names[1])
                   \/ b.schema_spec.kind = "list" /\ b.schema_spec.names = <<>>
    IN  IF no_spec \/ unselective THEN <<>> ELSE b.schema_names

\* a backup that would run its expiration whether or not the dump or the
\* promotion raised
backup_then_expire(st, b, keep, outcome) ==
    LET made == IF has_promotable_more_granular_backups(b, keep.days_to_keep,
                                                        keep.weeks_to_keep)
                THEN do_promotion(st, b)
                ELSE IF b.backup_type = "globals"
                THEN pg_dumpall_globals(st, filename(b), outcome)
                ELSE pg_dump(st, b.database_label, filename(b), schema_list_of(b),
                             b.empty, outcome)
        swept == expire([made EXCEPT !.err = ""], b, keep)
    IN  [swept EXCEPT !.err = made.err]

backup(st, b, keep, outcome) ==
    LET made == IF has_promotable_more_granular_backups(b, keep.days_to_keep,
                                                        keep.weeks_to_keep)
                THEN do_promotion(st, b)
                ELSE IF b.backup_type = "globals"
                THEN pg_dumpall_globals(st, filename(b), outcome)
                ELSE pg_dump(st, b.database_label, filename(b), schema_list_of(b),
                             b.empty, outcome)
    IN  IF made.err # "" THEN made ELSE expire(made, b, keep)

(***************************************************************************)
(* main.py: the configuration and the targets of do_backups                *)
(***************************************************************************)
\* the options of the [backup] section the model varies
Config(days, weeks, months, separate, include, exclude) ==
    [days_to_keep |-> days, weeks_to_keep |-> weeks, months_to_keep |-> months,
     separate_schema_dumps |-> separate,
     include_schemas |-> include, exclude_schemas |-> exclude]

\* _retention(config)
retention(config) ==
    [days_to_keep |-> config.days_to_keep, weeks_to_keep |-> config.weeks_to_keep,
     months_to_keep |-> config.months_to_keep]

\* a logical target: the arguments do_backups gives Backup()
Target(database, schema_spec, empty) ==
    [database |-> database, schema_spec |-> schema_spec, empty |-> empty]

\* matching_databases(): the one database of the server
databases == << <<"test">> >>

RECURSIVE per_schema(_, _)
per_schema(database, schemas) ==
    IF schemas = <<>> THEN <<>>
    ELSE <<Target(database, StrSpec(Head(schemas)), FALSE)>>
           \o per_schema(database, Tail(schemas))

\* targets whose empty backup would carry the schema criteria
targets_of_selective_empty(config, database) ==
    LET schema_criteria == SchemaCriteria(config.include_schemas, config.exclude_schemas)
    IN  IF config.separate_schema_dumps
        THEN per_schema(database, matching_schemas(schema_criteria))
               \o <<Target(database, schema_criteria, TRUE)>>
        ELSE <<Target(database, schema_criteria, FALSE)>>
               \o (IF config.include_schemas.set
                   THEN <<Target(database, schema_criteria, TRUE)>> ELSE <<>>)

\* the backups do_backups makes for one database, in order
targets_of(config, database) ==
    LET schema_criteria == SchemaCriteria(config.include_schemas, config.exclude_schemas)
    IN  IF config.separate_schema_dumps
        THEN per_schema(database, matching_schemas(schema_criteria))
               \o <<Target(database, NoneSpec, TRUE)>>
        ELSE <<Target(database, schema_criteria, FALSE)>>
               \o (IF config.include_schemas.set
                   THEN <<Target(database, NoneSpec, TRUE)>> ELSE <<>>)

RECURSIVE targets_from(_, _)
targets_from(config, dbs) ==
    IF dbs = <<>> THEN <<>>
    ELSE targets_of(config, Head(dbs)) \o targets_from(config, Tail(dbs))

\* do_backups(config, things_to_back_up, backup_type, today): its backups
do_backups(config) == targets_from(config, databases)

GlobalsTarget == Target(None, NoneSpec, FALSE)

\* main_backup runs a tier when its keep count is true
tier_enabled(config, backup_type) ==
    IF backup_type = "daily" THEN truthy(config.days_to_keep)
    ELSE IF backup_type = "weekly" THEN truthy(config.weeks_to_keep)
    ELSE truthy(config.months_to_keep)

RECURSIVE next_stage(_, _)
next_stage(config, tiers) ==
    IF tiers = <<>> THEN "done"
    ELSE IF tier_enabled(config, Head(tiers)) /\ do_backups(config) # <<>>
    THEN Head(tiers)
    ELSE next_stage(config, Tail(tiers))

\* the stage of main_backup that follows a finished stage
stage_after(config, stage) ==
    IF stage = "globals" THEN next_stage(config, <<"daily", "weekly", "monthly">>)
    ELSE IF stage = "daily" THEN next_stage(config, <<"weekly", "monthly">>)
    ELSE IF stage = "weekly" THEN next_stage(config, <<"monthly">>)
    ELSE "done"

(***************************************************************************)
(* State                                                                   *)
(***************************************************************************)
VARIABLES
    disk,    \* the backup directory: a set of inodes
    config,  \* the configuration file
    today,   \* the date of the current run (get_today() at its start)
    pc,      \* where main_backup is: idle, globals, daily, weekly, monthly,
             \* done (returned) or failed (an exception ended the run)
    todo,    \* the backups left to make in the current stage
    call,    \* the last Backup.backup or Backup.expire: what it was and did
    hist     \* history: the runs so far, for the claims about daily runs

vars == <<disk, config, today, pc, todo, call, hist>>

\* what a call did: a dump requested, a hard link made, or neither
made_of(st) ==
    IF \E k \in 1..Len(st.log) : st.log[k][1] \in {"pg_dump", "pg_dumpall"} THEN "dump"
    ELSE IF \E k \in 1..Len(st.log) : st.log[k][1] = "link" THEN "link"
    ELSE "none"

expired_of(st) == \E k \in 1..Len(st.log) : st.log[k][1] = "expire"

\* the number of siblings expire found, and the number of files it unlinked
found_of(st) ==
    LET sweeps == { k \in 1..Len(st.log) : st.log[k][1] = "expire" }
    IN  IF sweeps = {} THEN 0 ELSE Len(st.log[CHOOSE k \in sweeps : TRUE][3])

unlinked_of(st) == Cardinality({ k \in 1..Len(st.log) : st.log[k][1] = "unlink" })

\* the source of the hard link a call made (empty when it made none)
src_of(st) ==
    LET links == { k \in 1..Len(st.log) : st.log[k][1] = "link" }
    IN  IF links = {} THEN <<>> ELSE st.log[CHOOSE k \in links : TRUE][2]

Call(op, b, st) ==
    [op |-> op, type |-> b.backup_type, name |-> filename(b), err |-> st.err,
     made |-> made_of(st), src |-> src_of(st), expired |-> expired_of(st),
     found |-> found_of(st), unlinked |-> unlinked_of(st)]

NoCall ==
    [op |-> "none", type |-> "", name |-> <<>>, err |-> "", made |-> "none",
     src |-> <<>>, expired |-> FALSE, found |-> 0, unlinked |-> 0]

NoHistory == [runs |-> 0, daily |-> TRUE]

\* the configurations: any keep counts, one combined dump per database
Configs ==
    { Config(r.days_to_keep, r.weeks_to_keep, r.months_to_keep, FALSE, NoPattern, NoPattern) :
        r \in Retention }

Init ==
    /\ disk = {}
    /\ config \in Configs
    /\ today = starting_date
    /\ pc = "idle"
    /\ todo = <<>>
    /\ call = NoCall
    /\ hist = NoHistory

(***************************************************************************)
(* main_backup, one Backup.backup at a time.  Runs follow one another on   *)
(* the same directory; get_today() is the system date, which does not go   *)
(* back from one run to the next.                                          *)
(***************************************************************************)
StartRun(d) ==
    /\ pc \in {"idle", "done", "failed"}
    /\ pc # "idle" => ymd2ord(d) >= ymd2ord(today)
    /\ today' = d
    /\ pc' = "globals"
    /\ todo' = <<GlobalsTarget>>
    /\ hist' = IF pc = "idle" THEN [runs |-> 1, daily |-> TRUE]
               ELSE IF hist.daily /\ pc = "done" /\ ymd2ord(d) = ymd2ord(today) + 1
               THEN [runs |-> hist.runs + 1, daily |-> TRUE]
               ELSE [runs |-> 0, daily |-> FALSE]
    /\ UNCHANGED <<disk, config, call>>

BackupStep(outcome) ==
    /\ pc \in BACKUP_TYPES
    /\ todo # <<>>
    /\ \E t \in {Head(todo)} :
       \E b \in {Backup(pc, t.database, t.schema_spec, today, t.empty)} :
       \E st \in {backup(Machine(disk, <<>>), b, retention(config), outcome)} :
       \E stage \in {stage_after(config, pc)} :
           /\ ~init_raises(pc, t.database, t.schema_spec, t.empty)
           /\ disk' = st.disk
           /\ call' = Call("backup", b, st)
           /\ IF st.err # "" THEN pc' = "failed" /\ todo' = <<>>
              ELSE IF Tail(todo) # <<>> THEN pc' = pc /\ todo' = Tail(todo)
              ELSE /\ pc' = stage
                   /\ todo' = IF stage = "done" THEN <<>> ELSE do_backups(config)
    /\ UNCHANGED <<config, today, hist>>

Next ==
    \/ \E d \in Dates : StartRun(d)
    \/ \E outcome \in Outcomes : BackupStep(outcome)

Spec == Init /\ [][Next]_vars

(***************************************************************************)
(* Backup.backup called directly by a client of the class: any tier, in    *)
(* any order, on one day, starting from the empty directory.               *)
(***************************************************************************)
\* the Backup object main_backup builds for a tier on a date (the first
\* target of do_backups; the server's globals for the globals tier)
artifact(cfg, backup_type, d) ==
    LET t == IF backup_type = "globals" THEN GlobalsTarget ELSE Head(do_backups(cfg))
    IN  Backup(backup_type, t.database, t.schema_spec, d, t.empty)

LastDay == plus_days(starting_date, FirstDay + NumDays - 1)

InitApi ==
    /\ disk = {}
    /\ config \in Configs
    /\ today = LastDay
    /\ pc = "idle"
    /\ todo = <<>>
    /\ call = NoCall
    /\ hist = NoHistory

CallBackup(backup_type, outcome) ==
    /\ \E b \in {artifact(config, backup_type, today)} :
       \E st \in {backup(Machine(disk, <<>>), b, retention(config), outcome)} :
           /\ disk' = st.disk
           /\ call' = Call("backup", b, st)
    /\ UNCHANGED <<config, today, pc, todo, hist>>

NextApi == \E backup_type \in BACKUP_TYPES, outcome \in Outcomes : CallBackup(backup_type, outcome)

SpecApi == InitApi /\ [][NextApi]_vars

(***************************************************************************)
(* Backup.expire on its own.  The directory is all the state expire reads: *)
(* it is drawn from the directories that earlier runs, under this or       *)
(* another configuration, can have left, and expire is applied to it once. *)
(***************************************************************************)
dumped(dir, b) ==
    (IF b.backup_type = "globals"
     THEN pg_dumpall_globals(Machine(dir, <<>>), filename(b), "ok")
     ELSE pg_dump(Machine(dir, <<>>), b.database_label, filename(b), schema_list_of(b),
                  b.empty, "ok")).disk

RECURSIVE dumps(_, _, _)
dumps(cfg, backup_type, days) ==
    IF days = {} THEN {}
    ELSE LET d == CHOOSE x \in days : TRUE
         IN  dumped(dumps(cfg, backup_type, days \ {d}), artifact(cfg, backup_type, d))

linked(dir, src, dst) == os_link(Machine(dir, <<>>), filename(src), filename(dst)).disk

\* the tier promoted from a tier
coarser(backup_type) ==
    IF backup_type = "daily" THEN {"weekly"}
    ELSE IF backup_type = "weekly" THEN {"monthly"}
    ELSE {}

\* the artifact of the same tier and day that the backup of another database
\* of the server leaves in the same directory
stranger(cfg, backup_type, d) ==
    LET t == Head(do_backups(cfg))
    IN  Backup(backup_type, <<"other">>, t.schema_spec, d, t.empty)

\* the dumps of one tier on any days of the window, and at most one
\* promotion of one of them, with or without the artifact of another
\* database next to it
DrawnDirs(cfg) ==
    UNION { {dumps(cfg, T, S)} \cup
            { linked(dumps(cfg, T, S), artifact(cfg, T, x[1]), artifact(cfg, x[2], x[1])) :
                x \in S \X coarser(T) } \cup
            { dumped(linked(dumps(cfg, T, S), artifact(cfg, T, x[1]),
                            artifact(cfg, x[2], x[1])),
                     stranger(cfg, T, x[1])) :
                x \in S \X coarser(T) } :
            <<T, S>> \in BACKUP_TYPES \X SUBSET Dates }

InitExpire ==
    /\ config \in Configs
    /\ disk \in DrawnDirs(config)
    /\ today = LastDay
    /\ pc = "idle"
    /\ todo = <<>>
    /\ call = NoCall
    /\ hist = NoHistory

Expire(backup_type) ==
    /\ call = NoCall
    /\ \E b \in {artifact(config, backup_type, today)} :
       \E st \in {expire(Machine(disk, <<>>), b, retention(config))} :
           /\ disk' = st.disk
           /\ call' = Call("expire", b, st)
    /\ UNCHANGED <<config, today, pc, todo, hist>>

NextExpire == \E backup_type \in BACKUP_TYPES : Expire(backup_type)

SpecExpire == InitExpire /\ [][NextExpire]_vars

(***************************************************************************)
(* File names on their own: Backup.__init__ and Backup.filename applied to *)
(* drawn arguments, Backup(filename=...) applied to the name they give and *)
(* to drawn names, and sorted_files applied to two siblings.               *)
(***************************************************************************)
\* the arguments of Backup.__init__ for a prospective backup
Identity(dir, conn, backup_type, database, schema_spec, empty) ==
    [backup_dir |-> dir, conn_info |-> conn, backup_type |-> backup_type,
     database |-> database, schema_spec |-> schema_spec, empty |-> empty]

\* backup_dir: not given, or the directory of the configuration
BackupDirs == { None, backup_dir }

\* hostname and port of the [backup] section: unset, set, a qualified host
\* name, a port with the separator in it
ConnInfos ==
    { [hostname |-> <<"">>, port |-> <<"">>],
      [hostname |-> <<"pg1">>, port |-> <<"5433">>],
      [hostname |-> <<"db", "example", "org">>, port |-> <<"">>],
      [hostname |-> <<"">>, port |-> <<"54", "33">>] }

DatabaseNames == { None, <<"test">>, <<"my", "db">> }

SchemaSpecs ==
    { NoneSpec, StrSpec(<<"s1">>), StrSpec(<<"s", "1">>),
      ListSpec(<< <<"s1">>, <<"public">> >>), ListSpec(<< <<"s1">>, <<"p", "q">> >>),
      ListSpec(<< <<"s1">> >>), ListSpec(<<>>), SchemaCriteria(NoPattern, NoPattern),
      SchemaCriteria(Pattern({<<"s1">>}), NoPattern),
      SchemaCriteria(NoPattern, Pattern({<<"s1">>})) }

\* backup_type: a tier, a name that is no tier, or not given
TypeNames == BACKUP_TYPES \cup {"hourly", ""}

\* the days of the window and days around a change of the number of digits
\* of the day, and of the year
CodecDates == Dates \cup { <<2016, 2, 9>>, <<2016, 2, 10>>, <<2016, 12, 31>>, <<2017, 1, 1>> }

\* date fields of names found in a directory: stamps the program writes,
\* the same day without the zeros, a day that is not in the calendar, the
\* day first, and the wildcard of a mask
DateFields ==
    { strftime(d) : d \in Dates } \cup
    { <<"2", "0", "1", "6", "-", "3", "-", "1">>,
      <<"2", "0", "1", "6", "-", "0", "2", "-", "3", "0">>,
      <<"1", "2", "-", "0", "4", "-", "2", "0", "1", "6">>,
      <<"*">> }

Suffixes == { GLOBALS_SUFFIX, REGULAR_SUFFIX, "bad_suffix" }

\* what comes before the date in a name: one field short, as the program
\* writes it, and one field long
Stems ==
    { <<"localhost", "5432", "adb">>,
      <<"localhost", "5432", "adb", "aschema">>,
      <<"localhost", "5432", "my", "db", "aschema">> }

FileNames ==
    { stem \o <<date, backup_type, suffix>> :
        stem \in Stems, date \in DateFields, backup_type \in TypeNames, suffix \in Suffixes }
    \cup { <<"a", "backup", "file">> }

\* the outcome of one step: the exception raised ("" when none), the object
\* made, the file name made or read, the sorted siblings, and the step's
\* argument
Coded(op, err, object, name, files, arg) ==
    [op |-> op, err |-> err, object |-> object, name |-> name, files |-> files, arg |-> arg]

Identities ==
    { Identity(dir, conn, backup_type, database, schema_spec, empty) :
        dir \in BackupDirs, conn \in ConnInfos, backup_type \in TypeNames, database \in DatabaseNames,
        schema_spec \in SchemaSpecs, empty \in BOOLEAN }

\* the arguments of one construction on one day, or none when names found
\* in a directory are read
InitCodec ==
    /\ disk = {}
    /\ config = Config(Unset, Unset, Unset, FALSE, NoPattern, NoPattern)
    /\ today \in CodecDates
    /\ pc = "idle"
    /\ todo \in {<<>>} \cup { <<i>> : i \in Identities }
    /\ call = NoCall
    /\ hist = NoHistory

\* Backup(backup_dir, backup_type, database, schema_spec, conn_info, today,
\* empty).filename
Encode ==
    /\ pc = "idle" /\ todo # <<>>
    /\ \E i \in {todo[1]} :
       call' = IF \/ required_missing(i.backup_dir, i.backup_type, i.database)
                  \/ init_raises_with(i.conn_info, i.backup_type, i.database,
                                      i.schema_spec, i.empty)
               THEN Coded("encode", "ValueError", None, None, <<>>, None)
               ELSE LET b == Backup_with(i.conn_info, i.backup_type, i.database,
                                         i.schema_spec, today, i.empty)
                    IN  IF filename_raises(b)
                        THEN Coded("encode", "RuntimeError", b, None, <<>>, None)
                        ELSE Coded("encode", "", b, filename(b), <<>>, None)
    /\ pc' = "encoded"
    /\ UNCHANGED <<disk, config, today, todo, hist>>

\* Backup(filename=...) of a name
decode(fname) ==
    IF parse_raises(fname) THEN Coded("decode", "ValueError", None, fname, <<>>, None)
    ELSE Coded("decode", "", parse_filename(fname), fname, <<>>, None)

\* Backup(filename=...) of the name just made
Decode ==
    /\ pc = "encoded" /\ call.err = ""
    /\ call' = decode(call.name)
    /\ pc' = "decoded"
    /\ UNCHANGED <<disk, config, today, todo, hist>>

\* Backup(filename=...) of a name found in a directory
DecodeName(fname) ==
    /\ pc = "idle" /\ todo = <<>>
    /\ call' = decode(fname)
    /\ pc' = "decoded"
    /\ UNCHANGED <<disk, config, today, todo, hist>>

\* .filename of the object read from a name
Reencode ==
    /\ pc = "decoded" /\ call.err = ""
    /\ call' = IF filename_raises(call.object)
               THEN Coded("encode", "RuntimeError", call.object, call.name, <<>>, None)
               ELSE Coded("encode", "", call.object, filename(call.object), <<>>, call.name)
    /\ pc' = "reencoded"
    /\ UNCHANGED <<disk, config, today, todo, hist>>

\* sorted_files(mask) in a directory that holds the artifact just named and
\* its sibling of another day
Sort(d) ==
    /\ pc = "encoded" /\ call.err = ""
    /\ \E i \in {todo[1]} :
       \E b \in {Backup_with(i.conn_info, i.backup_type, i.database, i.schema_spec, d,
                             i.empty)} :
       \E dir \in {write_file(write_file({}, call.name,
                                         Content("pg_dump", call.name, <<>>, i.empty)),
                              filename(b), Content("pg_dump", filename(b), <<>>, i.empty))} :
           call' = Coded("sort", "", b, call.name,
                         sorted_files(dir, filename_with_date_masked(b, "")), d)
    /\ pc' = "sorted"
    /\ UNCHANGED <<disk, config, today, todo, hist>>

NextCodec ==
    \/ Encode
    \/ Decode
    \/ \E fname \in FileNames : DecodeName(fname)
    \/ Reencode
    \/ \E d \in CodecDates : Sort(d)

SpecCodec == InitCodec /\ [][NextCodec]_vars

(***************************************************************************)
(* main_backup as one step: a whole run, in which every dump the run asks  *)
(* for succeeds, under configurations that also select schemas.            *)
(***************************************************************************)
\* one Backup() of a run: its tier and its target
Job(backup_type, target) == [backup_type |-> backup_type, target |-> target]

RECURSIVE jobs_of(_, _)
jobs_of(backup_type, targets) ==
    IF targets = <<>> THEN <<>>
    ELSE <<Job(backup_type, Head(targets))>> \o jobs_of(backup_type, Tail(targets))

\* the tiers main_backup runs after globals, coarsest first
stages_reversed(cfg) ==
    (IF tier_enabled(cfg, "monthly") THEN <<"monthly">> ELSE <<>>)
      \o (IF tier_enabled(cfg, "weekly") THEN <<"weekly">> ELSE <<>>)
      \o (IF tier_enabled(cfg, "daily") THEN <<"daily">> ELSE <<>>)

\* the tiers main_backup runs after globals, in its order
stages(cfg) ==
    (IF tier_enabled(cfg, "daily") THEN <<"daily">> ELSE <<>>)
      \o (IF tier_enabled(cfg, "weekly") THEN <<"weekly">> ELSE <<>>)
      \o (IF tier_enabled(cfg, "monthly") THEN <<"monthly">> ELSE <<>>)

RECURSIVE jobs_in(_, _)
jobs_in(cfg, tiers) ==
    IF tiers = <<>> THEN <<>>
    ELSE jobs_of(Head(tiers), do_backups(cfg)) \o jobs_in(cfg, Tail(tiers))

\* every Backup() main_backup makes, in order
jobs(cfg) == <<Job("globals", GlobalsTarget)>> \o jobs_in(cfg, stages(cfg))

\* the run so far: the machine and backup_objects_for_return
Run(st, returned) == [st |-> st, returned |-> returned]

\* the Backup(...).backup(**retention) calls of a run, until one raises
RECURSIVE run_jobs(_, _, _, _)
run_jobs(run, js, cfg, d) ==
    IF js = <<>> \/ run.st.err # "" THEN run
    ELSE LET j == Head(js)
             t == j.target
         IN  IF init_raises(j.backup_type, t.database, t.schema_spec, t.empty)
             THEN Run(raise(run.st, "ValueError"), run.returned)
             ELSE LET b == Backup(j.backup_type, t.database, t.schema_spec, d, t.empty)
                      st == backup(run.st, b, retention(cfg), "ok")
                  IN  run_jobs(Run(st, IF st.err = "" THEN Append(run.returned, b)
                                       ELSE run.returned),
                               Tail(js), cfg, d)

\* main_backup(cfg) on the day d
main_backup(dir, cfg, d) == run_jobs(Run(Machine(dir, <<>>), <<>>), jobs(cfg), cfg, d)

\* what a run did: its calls, the exception that ended it ("" when it
\* returned) and the objects it returned, each by its file name
Ran(run) ==
    [op |-> "main_backup", err |-> run.st.err, log |-> run.st.log,
     returned |-> IF run.st.err = ""
                  THEN [k \in 1..Len(run.returned) |-> filename(run.returned[k])]
                  ELSE <<>>]

\* include_schemas and exclude_schemas: unset, a pattern that matches one
\* schema, a pattern that matches none
Patterns == { NoPattern, Pattern({<<"s1">>}), Pattern({}) }

\* a tier off or on
Switches == { Unset, Str(1) }

\* the configurations: any keep counts with one combined dump, and every
\* schema selection, combined or separate, with each tier off or on
RunConfigs ==
    Configs \cup
    { Config(days, weeks, months, separate, include, exclude) :
        days \in Switches, weeks \in Switches, months \in Switches,
        separate \in BOOLEAN, include \in Patterns, exclude \in Patterns }

InitRuns ==
    /\ disk = {}
    /\ config \in RunConfigs
    /\ today = starting_date
    /\ pc = "idle"
    /\ todo = <<>>
    /\ call = NoCall
    /\ hist = NoHistory

MainBackup(d) ==
    /\ pc \in {"idle", "done", "failed"}
    /\ pc # "idle" => ymd2ord(d) >= ymd2ord(today)
    /\ \E run \in {main_backup(disk, config, d)} :
          /\ disk' = run.st.disk
          /\ call' = Ran(run)
          /\ pc' = IF run.st.err = "" THEN "done" ELSE "failed"
    /\ today' = d
    /\ UNCHANGED <<config, todo, hist>>

NextRuns == \E d \in Dates : MainBackup(d)

SpecRuns == InitRuns /\ [][NextRuns]_vars

(***************************************************************************)
(* Two main_backup processes on one backup directory.  Each takes          *)
(* get_today() when it starts and makes its backups one after another; the *)
(* other process and the system date move between the calls a process      *)
(* makes to the file system.  In do_promotion the directory is listed and  *)
(* the source chosen in one step, and os.link is called in a later step;   *)
(* every dump of these runs succeeds.                                      *)
(***************************************************************************)
Procs == {"a", "b"}

\* a listing that would choose a source whether or not a promotion is needed
plan_promotion_always(dir, b) ==
    LET finer == IF b.backup_type = "weekly" THEN "daily" ELSE "weekly"
        finer_backups == sorted_files(dir, filename_with_date_masked(b, finer))
    IN  IF finer_backups = <<>> THEN <<>> ELSE last(finer_backups)

\* do_promotion up to os.link: the source it chose in the directory it
\* listed, or <<>> when it will link nothing (no promotion is needed, or
\* the source is missing)
plan_promotion(dir, b) ==
    LET finer == IF b.backup_type = "weekly" THEN "daily" ELSE "weekly"
        finer_backups == sorted_files(dir, filename_with_date_masked(b, finer))
    IN  IF ~promotion_needed(Machine(dir, <<>>), b) \/ finer_backups = <<>> THEN <<>>
        ELSE last(finer_backups)

\* the Backup() of a job of a run that started on the day d
job_backup(j, d) ==
    Backup(j.backup_type, j.target.database, j.target.schema_spec, d, j.target.empty)

\* daily and weekly backups, with or without monthly ones
RaceConfigs ==
    { Config(Str(1), Str(1), months, FALSE, NoPattern, NoPattern) : months \in Switches }

InitRace ==
    /\ disk = {}
    /\ config \in RaceConfigs
    /\ today \in Dates
    /\ pc = [p \in Procs |-> "idle"]
    /\ todo = [p \in Procs |-> [date |-> today, jobs |-> <<>>, src |-> <<>>]]
    /\ call = [op |-> "none", proc |-> "", err |-> ""]
    /\ \E writers \in {{"a"}, Procs} : hist = [writers |-> writers, errs |-> {}]

\* main_backup starts: get_today() and the backups to make
Begin(p) ==
    /\ p \in hist.writers
    /\ pc[p] \in {"idle", "done", "failed"}
    /\ pc' = [pc EXCEPT ![p] = "backup"]
    /\ todo' = [todo EXCEPT ![p] = [date |-> today, jobs |-> jobs(config), src |-> <<>>]]
    /\ call' = [op |-> "begin", proc |-> p, err |-> ""]
    /\ UNCHANGED <<disk, config, today, hist>>

\* the process goes on after a Backup.backup that ended in the machine st
Ended(p, op, st) ==
    /\ disk' = st.disk
    /\ call' = [op |-> op, proc |-> p, err |-> st.err]
    /\ pc' = [pc EXCEPT ![p] = IF st.err # "" THEN "failed"
                               ELSE IF Tail(todo[p].jobs) = <<>> THEN "done"
                               ELSE "backup"]
    /\ todo' = [todo EXCEPT ![p].jobs = IF st.err # "" THEN <<>> ELSE Tail(@),
                            ![p].src = <<>>]

\* Backup.backup of the next job: a dump and its expiration; or the listing
\* of do_promotion, followed at once by the expiration when nothing is to be
\* linked, and else by os.link in a later step
BackupCall(p) ==
    /\ pc[p] = "backup"
    /\ \E b \in {job_backup(Head(todo[p].jobs), todo[p].date)} :
       \E src \in {IF has_promotable_more_granular_backups(b, config.days_to_keep,
                                                           config.weeks_to_keep)
                   THEN plan_promotion(disk, b) ELSE <<>>} :
          IF src # <<>>
          THEN /\ pc' = [pc EXCEPT ![p] = "link"]
               /\ todo' = [todo EXCEPT ![p].src = src]
               /\ call' = [op |-> "list", proc |-> p, err |-> ""]
               /\ UNCHANGED <<disk, hist>>
          ELSE /\ Ended(p, "backup", backup(Machine(disk, <<>>), b, retention(config), "ok"))
               /\ UNCHANGED hist
    /\ UNCHANGED <<config, today>>

\* os.link of the source chosen at the listing, and the expiration after it
Link(p) ==
    /\ pc[p] = "link"
    /\ \E b \in {job_backup(Head(todo[p].jobs), todo[p].date)} :
       \E tied \in {os_link(Machine(disk, <<>>), todo[p].src, filename(b))} :
          /\ Ended(p, "link", IF tied.err # "" THEN tied
                              ELSE expire(tied, b, retention(config)))
          /\ hist' = [hist EXCEPT !.errs = IF tied.err # "" THEN @ \cup {tied.err} ELSE @]
    /\ UNCHANGED <<config, today>>

\* midnight
Tick ==
    /\ \E d \in Dates : ymd2ord(d) = ymd2ord(today) + 1 /\ today' = d
    /\ call' = [op |-> "tick", proc |-> "", err |-> ""]
    /\ UNCHANGED <<disk, config, pc, todo, hist>>

NextRace ==
    \/ \E p \in Procs : Begin(p)
    \/ \E p \in Procs : BackupCall(p)
    \/ \E p \in Procs : Link(p)
    \/ Tick

SpecRace == InitRace /\ [][NextRace]_vars

(***************************************************************************)
(* A run of main_backup, one Backup.backup after another, with what every  *)
(* call of the run does laid out when the run starts: main_backup is the   *)
(* only writer of the directory, so the directory a call finds is the one  *)
(* the calls before it left, each having succeeded.  A step is the return  *)
(* of the call at hand.  main_backup is sequential code that waits for     *)
(* each dump tool to exit: when every external call returns, the call at   *)
(* hand is completed.                                                      *)
(***************************************************************************)
\* a run that would make every backup twice
RECURSIVE calls_twice(_, _, _, _)
calls_twice(dir, js, cfg, d) ==
    IF js = <<>> THEN <<>>
    ELSE LET b == job_backup(Head(js), d)
             does == [outcome \in Outcomes |->
                         LET st == backup(Machine(dir, <<>>), b, retention(cfg), outcome)
                         IN  [call |-> Call("backup", b, st), disk |-> st.disk]]
         IN  IF does["ok"].call.err # "" THEN <<does>>
             ELSE <<does, does>> \o calls_twice(does["ok"].disk, Tail(js), cfg, d)

\* the Backup(...).backup(**retention) calls of a run that starts on the day
\* d in the directory dir: for each, what it does under each outcome of its
\* dump; the calls go on while they raise nothing
RECURSIVE calls_of(_, _, _, _)
calls_of(dir, js, cfg, d) ==
    IF js = <<>> THEN <<>>
    ELSE LET b == job_backup(Head(js), d)
             does == [outcome \in Outcomes |->
                         LET st == backup(Machine(dir, <<>>), b, retention(cfg), outcome)
                         IN  [call |-> Call("backup", b, st), disk |-> st.disk]]
         IN  IF does["ok"].call.err # "" THEN <<does>>
             ELSE <<does>> \o calls_of(does["ok"].disk, Tail(js), cfg, d)

StartFair(d) ==
    /\ pc \in {"idle", "done", "failed"}
    /\ pc # "idle" => ymd2ord(d) >= ymd2ord(today)
    /\ today' = d
    /\ pc' = "globals"
    /\ todo' = calls_of(disk, jobs(config), config, d)
    /\ UNCHANGED <<disk, config, call, hist>>

\* the call at hand returns or raises; main_backup goes on to the next
\* call, returns, or is ended by the exception
Return(outcome) ==
    /\ pc \in BACKUP_TYPES
    /\ todo # <<>>
    /\ disk' = Head(todo)[outcome].disk
    /\ call' = Head(todo)[outcome].call
    /\ IF Head(todo)[outcome].call.err # "" THEN pc' = "failed" /\ todo' = <<>>
       ELSE IF Tail(todo) = <<>> THEN pc' = "done" /\ todo' = <<>>
       ELSE pc' = Head(Tail(todo))["ok"].call.type /\ todo' = Tail(todo)
    /\ UNCHANGED <<config, today, hist>>

NextFair ==
    \/ \E d \in Dates : StartFair(d)
    \/ \E outcome \in Outcomes : Return(outcome)

SpecFair == Init /\ [][NextFair]_vars /\ WF_vars(\E outcome \in Outcomes : Return(outcome))

(***************************************************************************)
(* Vocabulary of the properties                                            *)
(***************************************************************************)
\* two names of one group and tier: they differ in the date at most
same_group(f, g) == \A k \in {1, 2, 3, 4, 6, 7} : f[k] = g[k]

group(dir, name) == { f \in listdir(dir) : same_group(f, name) }

\* whether the string is a zero-padded YYYY-MM-DD stamp of a real date
well_formed_date(s) ==
    /\ Len(s) = 10
    /\ \A i \in {1, 2, 3, 4, 6, 7, 9, 10} : is_digit(s[i])
    /\ s[5] = "-" /\ s[8] = "-"
    /\ LET y == 1000 * value(s[1]) + 100 * value(s[2]) + 10 * value(s[3]) + value(s[4])
           m == 10 * value(s[6]) + value(s[7])
           d == 10 * value(s[9]) + value(s[10])
       IN  y >= 1 /\ m \in 1..12 /\ d >= 1 /\ d <= days_in_month(y, m)

\* the day an artifact is dated, as a day number
day_of(f) == ymd2ord(strptime(f[5]))

min(a, b) == IF a < b THEN a ELSE b

\* the same name in another tier
as_tier(name, backup_type) == [name EXCEPT ![6] = backup_type]

\* the artifacts of a tier in the group of a name
tier_of(dir, name, backup_type) == group(dir, as_tier(name, backup_type))

\* the latest-dated of a non-empty set of artifacts
latest(files) == CHOOSE f \in files : \A g \in files : day_of(g) <= day_of(f)

iso_week(f) == isocalendar(strptime(f[5]))

month_of(f) == <<strptime(f[5])[1], strptime(f[5])[2]>>

period_of(backup_type, f) == IF backup_type = "weekly" THEN iso_week(f) ELSE month_of(f)

\* the group of a name holds no artifact of the name's tier in its period
period_uncovered(dir, name) ==
    \/ group(dir, name) = {}
    \/ period_of(name[6], latest(group(dir, name))) # period_of(name[6], name)

\* the keep count in force for a tier
keep_count(cfg, backup_type) ==
    IF backup_type = "globals" THEN 1
    ELSE IF backup_type = "daily" THEN cfg.days_to_keep.n
    ELSE IF backup_type = "weekly" THEN cfg.weeks_to_keep.n
    ELSE cfg.months_to_keep.n

(***************************************************************************)
(* C1: expiring a tier of a group with keep count N >= 1 (1 for globals)   *)
(* on k artifacts leaves exactly the min(N, k) latest-dated of them, and   *)
(* every other file of the directory as it was.                            *)
(***************************************************************************)
C1_ExpireKeepsLatest ==
    [][ (call'.op = "expire" /\ keep_count(config, call'.type) >= 1) =>
          LET before == group(disk, call'.name)
              after == group(disk', call'.name)
          IN  /\ call'.err = ""
              /\ after \subseteq before
              /\ Cardinality(after) = min(keep_count(config, call'.type), Cardinality(before))
              /\ \A f \in after : \A g \in before \ after : day_of(f) > day_of(g)
              /\ listdir(disk') \ after = listdir(disk) \ before
              /\ \A f \in listdir(disk') : inode_of(disk', f).data = inode_of(disk, f).data
      ]_vars

\* an expiration that had to delete at least two artifacts and keep at least one
C1_Witness ==
    /\ call.op = "expire" /\ call.type = "daily"
    /\ config.days_to_keep.n >= 1
    /\ call.unlinked >= 2
    /\ call.found = call.unlinked + config.days_to_keep.n
    /\ Cardinality(group(disk, call.name)) = config.days_to_keep.n

(***************************************************************************)
(* C2: a weekly backup requested with daily enabled, for a group that has  *)
(* a daily artifact and whose most recent weekly artifact, if any, lies in *)
(* another ISO week than today, creates today's weekly path as a hard link *)
(* to the latest-dated daily artifact of the group and requests no dump.   *)
(***************************************************************************)
C2_WeeklyPromotion ==
    [][ ( /\ pc = "weekly" /\ call'.op = "backup" /\ call'.type = "weekly"
          /\ config.days_to_keep.n >= 1
          /\ tier_of(disk, call'.name, "daily") # {}
          /\ period_uncovered(disk, call'.name) ) =>
          LET source == latest(tier_of(disk, call'.name, "daily"))
          IN  /\ call'.err = ""
              /\ call'.made = "link"
              /\ call'.src = source
              /\ ~exists(disk, call'.name)
              /\ exists(disk', call'.name)
              /\ inode_of(disk', call'.name).data = inode_of(disk, source).data
              /\ source \in inode_of(disk', call'.name).links
      ]_vars

\* a weekly artifact just linked to the later of two daily artifacts, in a
\* week other than that of the weekly artifact the group already had
C2_Witness ==
    /\ call.op = "backup" /\ call.type = "weekly" /\ call.made = "link"
    /\ config.days_to_keep.n >= 1
    /\ Cardinality(tier_of(disk, call.name, "daily")) = 2
    /\ Cardinality(tier_of(disk, call.name, "weekly")) = 2
    /\ inode_of(disk, call.name) = inode_of(disk, as_tier(call.name, "daily"))

(***************************************************************************)
(* C3: a monthly backup requested with weekly enabled, for a group that    *)
(* has a weekly artifact and whose most recent monthly artifact, if any,   *)
(* lies in another month than today, creates today's monthly path as a     *)
(* hard link to the latest-dated weekly artifact; when the most recent     *)
(* monthly artifact lies in today's month nothing is created; the source   *)
(* of a monthly link is never a daily path.                                *)
(***************************************************************************)
C3_MonthlyPromotion ==
    [][ (pc = "monthly" /\ call'.op = "backup" /\ call'.type = "monthly") =>
          /\ ( /\ config.weeks_to_keep.n >= 1
               /\ tier_of(disk, call'.name, "weekly") # {}
               /\ period_uncovered(disk, call'.name) ) =>
                 LET source == latest(tier_of(disk, call'.name, "weekly"))
                 IN  /\ call'.err = ""
                     /\ call'.made = "link"
                     /\ call'.src = source
                     /\ ~exists(disk, call'.name)
                     /\ exists(disk', call'.name)
                     /\ inode_of(disk', call'.name).data = inode_of(disk, source).data
                     /\ source \in inode_of(disk', call'.name).links
          /\ (config.weeks_to_keep.n >= 1 /\ ~period_uncovered(disk, call'.name)) =>
                 /\ call'.made = "none"
                 /\ listdir(disk') \subseteq listdir(disk)
          /\ call'.made = "link" => call'.src[6] = "weekly"
      ]_vars

\* a monthly artifact just linked to a weekly artifact dated before today,
\* the group already holding the monthly artifact of the month before
C3_Witness ==
    /\ call.op = "backup" /\ call.type = "monthly" /\ call.made = "link"
    /\ config.weeks_to_keep.n >= 1
    /\ Cardinality(tier_of(disk, call.name, "monthly")) = 2
    /\ call.src[6] = "weekly"
    /\ day_of(call.src) < day_of(call.name)
    /\ inode_of(disk, call.name) = inode_of(disk, call.src)

(***************************************************************************)
(* C4: with daily enabled, a weekly backup requested for a group that      *)
(* already holds a weekly artifact of today's ISO week (made on the same   *)
(* today or on another date of the week) creates no artifact, and the      *)
(* group holds exactly one weekly artifact of that week.                   *)
(***************************************************************************)
C4_IdempotentWeekly ==
    [][ ( /\ pc = "weekly" /\ call'.op = "backup" /\ call'.type = "weekly"
          /\ config.days_to_keep.n >= 1
          /\ \E f \in group(disk, call'.name) : iso_week(f) = iso_week(call'.name) ) =>
          /\ call'.err = ""
          /\ call'.made = "none"
          /\ listdir(disk') \subseteq listdir(disk)
          /\ Cardinality({ f \in group(disk', call'.name) :
                             iso_week(f) = iso_week(call'.name) }) = 1
      ]_vars

\* a weekly backup just requested again on a later date of a week whose
\* weekly artifact exists: nothing was made, the one of the week is there
C4_Witness ==
    /\ call.op = "backup" /\ call.type = "weekly" /\ call.made = "none" /\ call.err = ""
    /\ config.days_to_keep.n >= 1
    /\ ~exists(disk, call.name)
    /\ \E f \in group(disk, call.name) :
           iso_week(f) = iso_week(call.name) /\ day_of(f) < day_of(call.name)

(***************************************************************************)
(* C5: when a promotion is required (weekly with daily enabled, monthly    *)
(* with weekly enabled, no artifact of the tier in today's period) and the *)
(* group has no artifact of the finer tier, the backup fails: the          *)
(* directory is left as it was, no dump is requested and expire is not     *)
(* run.                                                                    *)
(***************************************************************************)
C5_FatalOnMissingSource ==
    [][ ( /\ call'.op = "backup"
          /\ \/ /\ call'.type = "weekly" /\ config.days_to_keep.n >= 1
                /\ tier_of(disk, call'.name, "daily") = {}
             \/ /\ call'.type = "monthly" /\ config.weeks_to_keep.n >= 1
                /\ tier_of(disk, call'.name, "weekly") = {}
          /\ period_uncovered(disk, call'.name) ) =>
          /\ call'.err = "RuntimeError"
          /\ call'.made = "none"
          /\ ~call'.expired
          /\ call'.unlinked = 0
          /\ disk' = disk
      ]_vars

\* a monthly backup that just failed for want of a weekly artifact, in a
\* group that has a daily artifact
C5_Witness ==
    /\ call.op = "backup" /\ call.type = "monthly" /\ call.err = "RuntimeError"
    /\ config.weeks_to_keep.n >= 1
    /\ tier_of(disk, call.name, "weekly") = {}
    /\ tier_of(disk, call.name, "daily") # {}
    /\ tier_of(disk, call.name, "monthly") = {}

(***************************************************************************)
(* C6: backup() requests a dump, and makes no hard link, exactly when the  *)
(* tier is globals, daily, weekly with daysToKeep zero, or monthly with    *)
(* weeksToKeep zero; weekly with daily enabled and monthly with weekly     *)
(* enabled never request a dump.                                           *)
(***************************************************************************)
C6_PromotionDecision ==
    [][ (pc \in BACKUP_TYPES /\ call'.op = "backup" /\ call'.type = pc) =>
          LET direct == \/ pc \in {"globals", "daily"}
                        \/ pc = "weekly" /\ config.days_to_keep.n = 0
                        \/ pc = "monthly" /\ config.weeks_to_keep.n = 0
          IN  /\ direct => (call'.made = "dump" /\ call'.src = <<>>)
              /\ ~direct => call'.made # "dump"
      ]_vars

(***************************************************************************)
(* C7: a directory entry that shares its file with an entry deleted by     *)
(* expiration stays in place, and every entry that is left has the content *)
(* it had: content goes away only with the last entry that refers to it.   *)
(***************************************************************************)
C7_HardLinksShareContent ==
    [][ /\ \A f \in listdir(disk) : \A g \in listdir(disk) \ {f} :
              (inode_of(disk, f) = inode_of(disk, g) /\ ~exists(disk', g)) =>
                  exists(disk', f)
        /\ \A f \in listdir(disk) :
              exists(disk', f) => inode_of(disk', f).data = inode_of(disk, f).data
      ]_vars

\* the daily backup has just expired the daily artifact a weekly artifact
\* was linked from: the weekly artifact is there, with the daily dump in it
C7_Witness ==
    /\ call.op = "backup" /\ call.type = "daily" /\ call.unlinked >= 1
    /\ \E f \in tier_of(disk, call.name, "weekly") :
           /\ inode_of(disk, f).data.out = as_tier(f, "daily")
           /\ ~exists(disk, as_tier(f, "daily"))

\* the days, ISO weeks and months of the daily runs made so far
days_run == { ymd2ord(today) - k : k \in 0..(hist.runs - 1) }

weeks_run == { isocalendar(ord2ymd(n)) : n \in days_run }

months_run == { <<ord2ymd(n)[1], ord2ymd(n)[2]>> : n \in days_run }

\* the artifacts of a tier in the group main_backup backs up
held(backup_type) == group(disk, filename(artifact(config, backup_type, today)))

within(count, keep, periods) == count <= keep /\ (periods >= keep => count = keep)

(***************************************************************************)
(* C8: with daily, weekly and monthly enabled and one run a day on         *)
(* consecutive days from the empty directory, after each completed run the *)
(* group holds at most daysToKeep daily, weeksToKeep weekly and            *)
(* monthsToKeep monthly artifacts, and exactly that many of a tier once    *)
(* that many days, ISO weeks or months have been backed up.                *)
(***************************************************************************)
C8_RetentionBound ==
    ( /\ pc = "done" /\ hist.daily
      /\ config.days_to_keep.n >= 1 /\ config.weeks_to_keep.n >= 1
      /\ config.months_to_keep.n >= 1 ) =>
      /\ within(Cardinality(held("daily")), config.days_to_keep.n, Cardinality(days_run))
      /\ within(Cardinality(held("weekly")), config.weeks_to_keep.n, Cardinality(weeks_run))
      /\ within(Cardinality(held("monthly")), config.months_to_keep.n, Cardinality(months_run))

\* daily runs over two ISO weeks and two months with keep counts of two:
\* two artifacts of each tier, an older daily artifact having been expired
C8_Witness ==
    /\ pc = "done" /\ hist.daily /\ hist.runs >= 3
    /\ config.days_to_keep.n = 2 /\ config.weeks_to_keep.n = 2
    /\ config.months_to_keep.n = 2
    /\ Cardinality(held("daily")) = 2
    /\ Cardinality(held("weekly")) = 2
    /\ Cardinality(held("monthly")) = 2

(***************************************************************************)
(* C9: after every completed run the directory holds exactly one globals   *)
(* artifact, whatever the keep counts, and it is dated today, the date of  *)
(* the run.                                                                *)
(***************************************************************************)
C9_GlobalsRetention ==
    pc = "done" => held("globals") = {filename(artifact(config, "globals", today))}

\* a completed run that followed a run of the day before
C9_Witness ==
    /\ pc = "done" /\ hist.daily /\ hist.runs >= 2
    /\ held("globals") = {filename(artifact(config, "globals", today))}

(***************************************************************************)
(* C10: after any sequence of completed runs, under any retention policy,  *)
(* no two weekly artifacts of a group lie in the same ISO week and no two  *)
(* monthly artifacts of a group lie in the same month.  The policies are   *)
(* those whose keep counts are unset or at least 1: a keep count spelled   *)
(* "0" is the subject of C13.                                              *)
(***************************************************************************)
plain_policy(cfg) ==
    \A v \in {cfg.days_to_keep, cfg.weeks_to_keep, cfg.months_to_keep} :
        v = Unset \/ v.n >= 1


C10_NoRedundantPeriodArtifacts ==
    (pc = "done" /\ plain_policy(config)) =>
      \A backup_type \in {"weekly", "monthly"} :
        \A f \in held(backup_type) : \A g \in held(backup_type) \ {f} :
          period_of(backup_type, f) # period_of(backup_type, g)

\* the first of the days run so far that lies in today's period of a tier
first_run_in_period(backup_type) ==
    LET period(n) == IF backup_type = "weekly" THEN isocalendar(ord2ymd(n))
                     ELSE <<ord2ymd(n)[1], ord2ymd(n)[2]>>
        same == { n \in days_run : period(n) = period(ymd2ord(today)) }
    IN  CHOOSE n \in same : \A k \in same : n <= k

all_enabled ==
    /\ config.days_to_keep.n >= 1
    /\ config.weeks_to_keep.n >= 1
    /\ config.months_to_keep.n >= 1

(***************************************************************************)
(* C11: with the three tiers enabled and runs on non-decreasing dates,     *)
(* after each completed run the most recent weekly artifact of the group   *)
(* lies in today's ISO week and the most recent monthly artifact in        *)
(* today's month; over daily runs the most recent one changes once per new *)
(* period: it is dated the first day run in today's week, or month.        *)
(***************************************************************************)
C11_CurrentPeriodCovered ==
    (pc = "done" /\ all_enabled) =>
      \A backup_type \in {"weekly", "monthly"} :
        /\ held(backup_type) # {}
        /\ period_of(backup_type, latest(held(backup_type)))
             = period_of(backup_type, filename(artifact(config, backup_type, today)))
        /\ hist.daily =>
             day_of(latest(held(backup_type))) = first_run_in_period(backup_type)

\* daily runs into the second week and the second month: the most recent
\* weekly artifact is of a day before today, the monthly one of today
C11_Witness ==
    /\ pc = "done" /\ all_enabled /\ hist.daily /\ hist.runs >= 3
    /\ Cardinality(held("weekly")) = 2
    /\ Cardinality(held("monthly")) = 2
    /\ day_of(latest(held("weekly"))) < ymd2ord(today)
    /\ iso_week(latest(held("weekly"))) = isocalendar(today)
    /\ day_of(latest(held("monthly"))) = ymd2ord(today)

\* the place of a stage in a run
rank(stage) ==
    IF stage = "globals" THEN 1 ELSE IF stage = "daily" THEN 2
    ELSE IF stage = "weekly" THEN 3 ELSE IF stage = "monthly" THEN 4 ELSE 5

(***************************************************************************)
(* C12: in a run the directory is first changed by the globals backup and  *)
(* its expiration; then every daily backup precedes every weekly backup    *)
(* and every weekly backup every monthly backup; a tier that is not        *)
(* enabled (keep count zero) is skipped.                                   *)
(***************************************************************************)
C12_OrchestrationOrder ==
    [][ /\ disk' # disk => (pc \in BACKUP_TYPES /\ call'.type = pc)
        /\ pc \notin BACKUP_TYPES => (pc' = "globals" /\ disk' = disk)
        /\ (pc \in BACKUP_TYPES /\ pc' \in BACKUP_TYPES) => rank(pc) <= rank(pc')
        /\ pc' \in {"daily", "weekly", "monthly"} => keep_count(config, pc') >= 1
      ]_vars

(***************************************************************************)
(* C13: a tier whose configured keep count is zero is not backed up in a   *)
(* run (no artifact of the tier is dumped or linked), so expire is never   *)
(* run with a keep count of 0 for the tier of its object.                  *)
(***************************************************************************)
C13_ZeroMeansDisabled ==
    [][ (pc \in BACKUP_TYPES /\ call'.op = "backup" /\ call'.type = pc) =>
          /\ keep_count(config, pc) >= 1
          /\ call'.expired => keep_count(config, pc) >= 1
      ]_vars

(***************************************************************************)
(* C14: when a dump or a promotion fails in a run, expire is not run for   *)
(* the object that failed, nothing is deleted and no link stands in for    *)
(* the dump; the run ends there: the directory is not changed again, and   *)
(* no backup is made again, until another run starts.                      *)
(***************************************************************************)
C14_AbortWithoutRollback ==
    [][ /\ (pc \in BACKUP_TYPES /\ call'.op = "backup" /\ call'.err # "") =>
              /\ pc' = "failed"
              /\ ~call'.expired
              /\ call'.unlinked = 0
              /\ call'.src = <<>>
              /\ listdir(disk) \subseteq listdir(disk')
              /\ \A f \in listdir(disk) : f # call'.name =>
                     inode_of(disk', f) = inode_of(disk, f)
        /\ pc = "failed" => (disk' = disk /\ call' = call /\ pc' = "globals")
      ]_vars

\* a run that ended at a weekly dump that failed, with the globals artifact
\* of the run and a part of the weekly dump left in the directory
C14_Witness ==
    /\ pc = "failed" /\ call.op = "backup" /\ call.type = "weekly"
    /\ call.err = "CalledProcessError" /\ call.made = "dump"
    /\ exists(disk, filename(artifact(config, "globals", today)))
    /\ exists(disk, call.name)
    /\ held("monthly") = {}

(***************************************************************************)
(* C15: expire for an object removes directory entries of the object's own *)
(* (host, port, database, schema, tier) group only; every entry of another *)
(* tier or of another group stays in the directory with the content it     *)
(* had, also when it is a hard link to a file whose entry is removed.      *)
(***************************************************************************)
C15_ExpirationFrame ==
    [][ call'.op = "expire" =>
          LET own == group(disk, call'.name)
          IN  /\ listdir(disk) \ listdir(disk') \subseteq own
              /\ listdir(disk') \subseteq listdir(disk)
              /\ \A f \in listdir(disk) \ own :
                    /\ f \in listdir(disk')
                    /\ inode_of(disk', f).data = inode_of(disk, f).data
      ]_vars

\* an expiration that removed the entry a dump was written to while the
\* link to it in the next tier, and the same day's artifact of another
\* database, are still in the directory
C15_Witness ==
    /\ call.op = "expire" /\ call.unlinked >= 1
    /\ \E f \in listdir(disk) :
          /\ f[6] # call.type /\ f[3] = call.name[3]
          /\ inode_of(disk, f).data.out \notin listdir(disk)
          /\ inode_of(disk, f).data.out[6] = call.type
          /\ \E g \in listdir(disk) :
                g[3] # f[3] /\ g[6] = call.type /\ g[5] = f[5]

\* the object Backup.__init__ makes of the arguments drawn, and whether it
\* makes one
identity_of(i, d) ==
    Backup_with(i.conn_info, i.backup_type, i.database, i.schema_spec, d, i.empty)

constructible(i) ==
    /\ ~required_missing(i.backup_dir, i.backup_type, i.database)
    /\ ~init_raises_with(i.conn_info, i.backup_type, i.database, i.schema_spec, i.empty)

C17_SortEquivalence ==
    pc = "sorted" =>
      LET f == call.name
          g == filename(call.object)
      IN  /\ \A k \in (1..NUM_FILENAME_PARTS) \ {5} : f[k] = g[k]
          /\ file_less(f, g) <=> ymd2ord(today) < ymd2ord(call.arg)
          /\ file_less(g, f) <=> ymd2ord(call.arg) < ymd2ord(today)
          /\ call.files # <<>>
          /\ call.files[Len(call.files)]
               = IF ymd2ord(today) < ymd2ord(call.arg) THEN g ELSE f

\* siblings of the 9th and the 10th of a month, sorted with the 10th last
C17_Witness ==
    /\ pc = "sorted" /\ today = <<2016, 2, 10>> /\ call.arg = <<2016, 2, 9>>
    /\ Len(call.files) = 2 /\ call.files[2] = call.name

(***************************************************************************)
(* C18: reading a name of seven fields with a valid date and a known tier  *)
(* fails whenever the suffix is not the one of the tier: sql for globals,  *)
(* the suffix of regular dumps for daily, weekly and monthly.              *)
(***************************************************************************)
C18_SuffixMatchesTier ==
    ( /\ pc = "decoded" /\ todo = <<>>
      /\ Len(call.name) = NUM_FILENAME_PARTS
      /\ well_formed_date(call.name[5])
      /\ call.name[6] \in BACKUP_TYPES
      /\ call.name[7] # suffix_of(call.name[6]) ) =>
        call.err = "ValueError"

(***************************************************************************)
(* C19: reading a name fails, and gives no object, when the name does not  *)
(* split into exactly seven fields, when its date field is not a valid     *)
(* YYYY-MM-DD date, or when its tier field is not one of globals, daily,   *)
(* weekly, monthly.                                                        *)
(***************************************************************************)
C19_MalformedRejected ==
    ( /\ pc = "decoded" /\ todo = <<>>
      /\ \/ Len(call.name) # NUM_FILENAME_PARTS
         \/ ~well_formed_date(call.name[5])
         \/ call.name[6] \notin BACKUP_TYPES ) =>
        (call.err = "ValueError" /\ call.object = None)

(***************************************************************************)
(* C20: constructing an object for a prospective backup fails when the     *)
(* port label, the database label or a schema name of the selection has    *)
(* the separator '.' in it, so the file name of every object constructed   *)
(* has exactly seven fields.                                               *)
(***************************************************************************)
C20_SeparatorRejected ==
    (pc = "encoded" /\ todo # <<>>) =>
      LET i == todo[1]
          names == schema_names_of(i.schema_spec)
      IN  /\ ( \/ contains_dot(port_label(i.conn_info.port))
               \/ contains_dot(database_label(i.database))
               \/ \E k \in 1..Len(names) : contains_dot(names[k]) ) =>
                 call.err = "ValueError"
          /\ call.err # "ValueError" =>
                 (call.err = "" /\ Len(call.name) = NUM_FILENAME_PARTS)

\* a construction refused for the database name alone
C20_Witness ==
    /\ pc = "encoded" /\ todo # <<>> /\ call.err = "ValueError"
    /\ todo[1].database = <<"my", "db">>
    /\ todo[1].backup_type = "daily"
    /\ todo[1].conn_info.port = <<"5433">>
    /\ todo[1].schema_spec = StrSpec(<<"s1">>)
    /\ ~todo[1].empty

(***************************************************************************)
(* C21: constructing an object for a prospective backup fails, and gives   *)
(* no object, when the backup directory is missing, when the tier is not   *)
(* globals and the tier or the database is missing, and when the tier is   *)
(* none of globals, daily, weekly, monthly.                                *)
(***************************************************************************)
C21_RequiredParameters ==
    (pc = "encoded" /\ todo # <<>>) =>
      LET i == todo[1]
      IN  ( \/ falsy(i.backup_dir)
            \/ i.backup_type # "globals" /\ (i.backup_type = "" \/ falsy(i.database))
            \/ i.backup_type \notin BACKUP_TYPES ) =>
              (call.err = "ValueError" /\ call.object = None /\ call.name = None)

\* a daily backup refused for the missing database alone
C21_Witness ==
    /\ pc = "encoded" /\ todo # <<>> /\ call.err = "ValueError"
    /\ todo[1].backup_dir = backup_dir
    /\ todo[1].backup_type = "daily"
    /\ todo[1].database = None
    /\ todo[1].conn_info.port = <<"5433">>
    /\ todo[1].schema_spec = NoneSpec

(***************************************************************************)
(* C22: the schema label of an object is the one name of a selection of    *)
(* one name; selected_schemas for two or more names and for criteria with  *)
(* an inclusion or an exclusion; all_schemas for criteria with neither;    *)
(* no_schemas for no selection and for an empty request, whatever the      *)
(* selection; and an empty collection of names is refused with an error.   *)
(***************************************************************************)
C22_SchemaLabel ==
    (pc = "encoded" /\ todo # <<>>) =>
      LET i == todo[1]
          spec == i.schema_spec
          named == spec.kind \in {"str", "list"}
          narrowed == spec.kind = "SchemaCriteria" /\ (spec.include.set \/ spec.exclude.set)
          label == call.object.schema_label
      IN  /\ (~i.empty /\ spec.kind = "list" /\ Len(spec.names) = 0) =>
                (call.err = "ValueError" /\ call.object = None)
          /\ call.err = "" =>
                /\ i.empty => label = <<"no_schemas">>
                /\ (~i.empty /\ spec.kind = "None") => label = <<"no_schemas">>
                /\ (~i.empty /\ named /\ Len(spec.names) = 1) => label = spec.names[1]
                /\ (~i.empty /\ named /\ Len(spec.names) >= 2) => label = <<"selected_schemas">>
                /\ (~i.empty /\ narrowed) => label = <<"selected_schemas">>
                /\ (~i.empty /\ spec.kind = "SchemaCriteria" /\ ~narrowed) =>
                       label = <<"all_schemas">>

\* the label of a collection of two names
C22_Witness ==
    /\ pc = "encoded" /\ todo # <<>> /\ call.err = ""
    /\ todo[1].schema_spec = ListSpec(<< <<"s1">>, <<"public">> >>)
    /\ ~todo[1].empty
    /\ call.object.schema_label = <<"selected_schemas">>
    /\ call.name[4] = "selected_schemas"

\* the calls of a run that wrote a file or made a link, and the name each
\* of them made
makers(log) == { k \in 1..Len(log) : log[k][1] \in {"pg_dump", "pg_dumpall", "link"} }

made_name(entry) == IF entry[1] = "link" THEN entry[3] ELSE entry[2]

(***************************************************************************)
(* C23: every artifact dumped or hard-linked in one run of main_backup has *)
(* in its name the one date the run took at its start, whatever the tier,  *)
(* the database and the schema selection.                                  *)
(***************************************************************************)
C23_SharedToday ==
    [][ call'.op = "main_backup" =>
          /\ \A k \in makers(call'.log) : made_name(call'.log[k])[5] = strftime(today')
          /\ \A f \in listdir(disk') \ listdir(disk) : f[5] = strftime(today')
      ]_vars

\* a run of five backups or more in which a link was made to a file of an
\* earlier day
C23_Witness ==
    /\ call.op = "main_backup" /\ call.err = ""
    /\ Len(call.returned) >= 5
    /\ \E k \in makers(call.log) :
          /\ call.log[k][1] = "link"
          /\ call.log[k][2][5] # strftime(today)
          /\ call.log[k][3][5] = strftime(today)

(***************************************************************************)
(* C24: a run of main_backup on the day of the run before it, which        *)
(* returned, under the same configuration, fails nowhere and leaves the    *)
(* file names the run before it left; and they are, after a first run in   *)
(* an empty directory, one globals artifact and one artifact of each       *)
(* enabled tier for each group, of that date.                              *)
(***************************************************************************)
C24_SameDayRerun ==
    [][ call'.op = "main_backup" =>
          /\ (pc = "done" /\ today' = today) =>
                (call'.err = "" /\ listdir(disk') = listdir(disk))
          /\ pc = "idle" =>
                /\ call'.err = ""
                /\ Len(call'.returned) = Len(jobs(config))
                /\ listdir(disk') = { call'.returned[k] : k \in 1..Len(call'.returned) }
                /\ \A f \in listdir(disk') : f[5] = strftime(today')
      ]_vars

\* a run with the three tiers on that made no link, in a directory that
\* holds a weekly and a monthly artifact of the day: the directory of a
\* run made earlier the same day
C24_Witness ==
    /\ call.op = "main_backup" /\ call.err = ""
    /\ plain_policy(config) /\ all_enabled
    /\ \A k \in makers(call.log) : call.log[k][1] # "link"
    /\ \E f \in listdir(disk) : f[6] = "weekly" /\ f[5] = strftime(today)
    /\ \E f \in listdir(disk) : f[6] = "monthly" /\ f[5] = strftime(today)

well_formed_request(entry) == ~(entry[4] /\ entry[3] # <<>>)

C26_WellFormedRequests ==
    /\ call.op = "main_backup" =>
          /\ call.err # "ValueError"
          /\ \A k \in 1..Len(call.log) :
                call.log[k][1] = "pg_dump" => well_formed_request(call.log[k])
    /\ \A outcome \in Outcomes :
          LET fname == filename(Backup("daily", <<"test">>, NoneSpec, today, TRUE))
              st == pg_dump(Machine(disk, <<>>), <<"test">>, fname, << <<"s1">> >>, TRUE, outcome)
          IN  /\ st.err = "ValueError"
              /\ st.disk = disk
              /\ \A k \in 1..Len(st.log) : st.log[k][1] # "pg_dump"

\* a run with schema inclusions that asked for the selective dump and for the
\* empty dump of the database, the latter with no schema list
C26_Witness ==
    /\ call.op = "main_backup" /\ call.err = ""
    /\ config.include_schemas.set
    /\ \E k \in 1..Len(call.log) :
          call.log[k][1] = "pg_dump" /\ call.log[k][4] /\ call.log[k][3] = <<>>
    /\ \E k \in 1..Len(call.log) :
          call.log[k][1] = "pg_dump" /\ ~call.log[k][4] /\ call.log[k][3] # <<>>

(***************************************************************************)
(* C27: every backup object returned by main_backup names a path at which  *)
(* an artifact was dumped or hard-linked during that run, and the path     *)
(* exists in the backup directory when the run ends.                       *)
(***************************************************************************)
C27_ReturnedAreWritten ==
    (call.op = "main_backup" /\ call.err = "") =>
      \A k \in 1..Len(call.returned) :
        /\ exists(disk, call.returned[k])
        /\ \E j \in makers(call.log) : made_name(call.log[j]) = call.returned[k]

(***************************************************************************)
(* C28: within a run, for each enabled tier the expired artifacts of a     *)
(* group are deleted before the new backup of the group is produced, so    *)
(* that a group never holds more artifacts of a tier than the keep count   *)
(* of the tier: whenever the expiration of a tier lists the group, it      *)
(* finds at most the keep count of files.                                  *)
(***************************************************************************)
C28_ExpireBeforeBackup ==
    (call.op = "main_backup" /\ plain_policy(config)) =>
      \A k \in 1..Len(call.log) :
        (call.log[k][1] = "expire" /\ call.log[k][3] # <<>>
           /\ call.log[k][3][1][6] \in {"daily", "weekly", "monthly"}) =>
          Len(call.log[k][3]) <= call.log[k][2]

(***************************************************************************)
(* C29: two runs on one backup directory race: there is an interleaving in *)
(* which a promotion that decided to link fails at os.link, because after  *)
(* its listing the other run created the target path or deleted the source *)
(* it chose.  With a single writer no os.link of a promotion fails.        *)
(***************************************************************************)
C29_SingleWriterNoRace ==
    hist.writers = {"a"} => (hist.errs = {} /\ (call.op = "link" => call.err = ""))

\* two writers: a link has found its target made by the other run, and a
\* link has found its source deleted by the other run
C29_Witness ==
    /\ hist.writers = Procs
    /\ hist.errs = {"FileExistsError", "FileNotFoundError"}
    /\ call.op = "link" /\ call.err # ""

(***************************************************************************)
(* C30: in a sequence of main_backup runs with positive keep counts, in    *)
(* which every dump succeeds and every tier of a run has the same targets, *)
(* the missing-source RuntimeError is never raised: a weekly promotion     *)
(* that is needed finds a daily artifact of its group, and a monthly       *)
(* promotion that is needed finds a weekly artifact of its group.          *)
(***************************************************************************)
C30_SourceExists ==
    (call.op = "main_backup" /\ plain_policy(config)) =>
      /\ call.err # "RuntimeError"
      /\ \A k \in 1..Len(call.log) :
            call.log[k][1] = "link" =>
              LET src == call.log[k][2]
                  dst == call.log[k][3]
              IN  /\ src[6] = (IF dst[6] = "weekly" THEN "daily" ELSE "weekly")
                  /\ \A n \in 1..4 : src[n] = dst[n]

\* a run, not the first in its directory, that made a weekly link from a
\* daily artifact and a monthly link from a weekly one
C30_Witness ==
    /\ call.op = "main_backup" /\ call.err = "" /\ plain_policy(config)
    /\ \E f \in listdir(disk) : f[5] # strftime(today)
    /\ \E k \in 1..Len(call.log) :
          call.log[k][1] = "link" /\ call.log[k][3][6] = "weekly"
    /\ \E k \in 1..Len(call.log) :
          call.log[k][1] = "link" /\ call.log[k][3][6] = "monthly"

(***************************************************************************)
(* C31: for every monthly artifact created by promotion, the dump whose    *)
(* content it shares was produced on a date in the same (year, month) as   *)
(* the date in the name of the monthly artifact.                           *)
(***************************************************************************)
\* yyyy-mm of a date stamp
stamp_month(stamp) == SubSeq(stamp, 1, 7)

\* the names of a tier that were made by a hard link: the content under
\* them was dumped to another path
promoted(dir, backup_type) ==
    { f \in listdir(dir) : f[6] = backup_type /\ inode_of(dir, f).data.out # f }

C31_MonthlyContentOfMonth ==
    (call.op = "main_backup" /\ plain_policy(config)) =>
      \A f \in promoted(disk, "monthly") :
        stamp_month(inode_of(disk, f).data.out[5]) = stamp_month(f[5])

(***************************************************************************)
(* C32: in runs of main_backup on non-decreasing dates with daily and      *)
(* weekly enabled, every weekly artifact created by promotion shares its   *)
(* content with the daily dump produced in the same run: the link of the   *)
(* run takes the daily name of the day, dumped earlier in that run, and    *)
(* the date in a weekly name is the date its content was dumped on.        *)
(***************************************************************************)
C32_WeeklyIsTodaysDump ==
    (call.op = "main_backup" /\ keep_count(config, "daily") >= 1
       /\ keep_count(config, "weekly") >= 1) =>
      /\ \A f \in promoted(disk, "weekly") :
            LET out == inode_of(disk, f).data.out
            IN  out[6] = "daily" /\ out[5] = f[5]
      /\ \A k \in 1..Len(call.log) :
            (call.log[k][1] = "link" /\ call.log[k][3][6] = "weekly") =>
              /\ call.log[k][2][6] = "daily"
              /\ call.log[k][2][5] = strftime(today)
              /\ call.log[k][3][5] = strftime(today)
              /\ \E j \in 1..(k - 1) :
                    call.log[j][1] = "pg_dump" /\ call.log[j][2] = call.log[k][2]

\* a run that linked a weekly artifact while daily artifacts of two days
\* were in the directory
C32_Witness ==
    /\ call.op = "main_backup" /\ call.err = ""
    /\ keep_count(config, "daily") >= 2 /\ keep_count(config, "weekly") >= 1
    /\ \E k \in 1..Len(call.log) :
          call.log[k][1] = "link" /\ call.log[k][3][6] = "weekly"
    /\ \E f \in listdir(disk) : f[6] = "daily" /\ f[5] # strftime(today)
    /\ \E f \in promoted(disk, "weekly") : f[5] = strftime(today)

(***************************************************************************)
(* C33: in runs on non-decreasing dates, whenever a promotion decides to   *)
(* make a hard link, no directory entry exists yet at the target path (the *)
(* weekly or monthly name of the day): the link never fails because the   *)
(* target exists, and the target was not in the directory before the run.  *)
(***************************************************************************)
C33_LinkTargetFresh ==
    [][ call'.op = "main_backup" =>
          /\ call'.err # "FileExistsError"
          /\ \A k \in 1..Len(call'.log) :
                call'.log[k][1] = "link" =>
                  /\ ~exists(disk, call'.log[k][3])
                  /\ \A j \in 1..(k - 1) :
                        j \in makers(call'.log) =>
                          made_name(call'.log[j]) # call'.log[k][3]
      ]_vars

\* a run that linked the weekly and the monthly artifact of its day in a
\* directory that holds a weekly artifact of an earlier week
C33_Witness ==
    /\ call.op = "main_backup" /\ call.err = ""
    /\ keep_count(config, "daily") >= 1 /\ keep_count(config, "weekly") >= 2
    /\ \E k \in 1..Len(call.log) :
          /\ call.log[k][1] = "link"
          /\ call.log[k][3][6] = "weekly" /\ call.log[k][3][5] = strftime(today)
    /\ \E k \in 1..Len(call.log) :
          call.log[k][1] = "link" /\ call.log[k][3][6] = "monthly"
    /\ \E f \in promoted(disk, "weekly") : f[5] # strftime(today)

(***************************************************************************)
(* C34: within one run and one tier, two different logical targets (the    *)
(* per-schema, combined and empty dumps of a database) never encode to the *)
(* same file name, so no target's artifact overwrites another's: the names *)
(* of the objects of a run, one per target and tier, are all different.    *)
(***************************************************************************)
C34_DistinctNames ==
    (call.op = "main_backup" /\ call.err = "") =>
      \A j, k \in 1..Len(call.returned) :
        j # k => call.returned[j] # call.returned[k]

(***************************************************************************)
(* C35: whenever a dump is requested for an identity whose schema label is *)
(* selected_schemas, the schema list passed to pg_dump is not empty, so    *)
(* the dump is restricted to the matching schemas and never covers the     *)
(* whole database.                                                         *)
(***************************************************************************)
C35_SelectedIsRestricted ==
    call.op = "main_backup" =>
      \A k \in 1..Len(call.log) :
        (call.log[k][1] = "pg_dump" /\ call.log[k][2][4] = "selected_schemas") =>
          call.log[k][3] # <<>>

(***************************************************************************)
(* C36: when expire is invoked for a daily, weekly or monthly identity     *)
(* whose keep count is 0, no file is deleted and the artifacts of the      *)
(* group are left unchanged.                                               *)
(***************************************************************************)
C36_KeepZeroDeletesNothing ==
    [][ (call'.op = "expire" /\ call'.type \in {"daily", "weekly", "monthly"}
           /\ keep_count(config, call'.type) = 0) =>
          (call'.err = "" /\ call'.unlinked = 0 /\ disk' = disk)
      ]_vars

\* expire has run with a keep count of "0" over a group of two or more
C36_Witness ==
    /\ call.op = "expire" /\ call.expired /\ call.err = ""
    /\ call.type \in {"daily", "weekly", "monthly"}
    /\ keep_count(config, call.type) = 0
    /\ (IF call.type = "daily" THEN config.days_to_keep
        ELSE IF call.type = "weekly" THEN config.weeks_to_keep
        ELSE config.months_to_keep) = Str(0)
    /\ call.found >= 2
    /\ Cardinality({ f \in listdir(disk) : f[6] = call.type }) >= 2

(***************************************************************************)
(* C37: given that every external dump call returns, with success or with  *)
(* failure, every run of main_backup eventually ends: it has either        *)
(* processed every target of every enabled tier exactly once, or halted at *)
(* the first error.  The k-th call of a run that returns is the backup of  *)
(* the k-th job of the run; the run returns after the call of its last job *)
(* and is ended by the first call that raises.                             *)
(***************************************************************************)
\* the place in the run of the call at hand
place(cfg, left) == Len(jobs(cfg)) - Len(left) + 1

C37_RunTermination ==
    /\ (pc \in BACKUP_TYPES) ~> (pc \in {"done", "failed"})
    /\ [][ /\ pc \notin BACKUP_TYPES => (pc' = "globals" /\ place(config, todo') = 1)
           /\ (pc \in BACKUP_TYPES /\ call'.err = "") =>
                /\ place(config, todo) \in 1..Len(jobs(config))
                /\ call'.name = filename(job_backup(jobs(config)[place(config, todo)], today))
                /\ pc' = "done" <=> place(config, todo) = Len(jobs(config))
                /\ pc' # "done" => (pc' \in BACKUP_TYPES /\ todo' = Tail(todo))
           /\ (pc \in BACKUP_TYPES /\ call'.err # "") =>
                (pc' = "failed" /\ todo' = <<>>)
         ]_vars

\* a run with every tier enabled has returned after its monthly backup, in
\* a directory that held the artifacts of an earlier day
C37_Witness ==
    /\ pc = "done" /\ all_enabled
    /\ call.op = "backup" /\ call.type = "monthly" /\ call.err = ""
    /\ todo = <<>>
    /\ \E f \in listdir(disk) : f[6] = "daily" /\ f[5] # strftime(today)

====
